---- MODULE Spec2Model ----
(***************************************************************************)
(* State-machine model of the task registries and pipeline workers of the  *)
(* voice backend (app/services): media upload, the two transcription       *)
(* services and the file they persist to, the replace orchestrator, the    *)
(* TTS task registry it drives, and the courseware worker (CourseSpec).    *)
(* RestartSpec is the same application started on the files of an earlier *)
(* run.  Four functions are run on their own, on inputs drawn from bounded *)
(* sets: detect_speech_segments (DetectSpec), the stitching block of       *)
(* process_replace_task (StitchSpec), VoiceCloner.adapt_tts_params         *)
(* (AdaptSpec), and the similarity functions over the voice_embeddings     *)
(* directory (SimilarSpec).                                                *)
(*                                                                         *)
(* Atomicity.  The services are asyncio coroutines.  Awaiting another      *)
(* coroutine of the application (save_*_db, get_voice_samples,             *)
(* synthesize_speech, temp_bg_tasks()) does not yield to the event loop;   *)
(* only asyncio.sleep does.  One action of the model is therefore the code *)
(* a worker runs from one asyncio.sleep to the next (or to its return).    *)
(*                                                                         *)
(* Clock.  time.time() is truncated to whole seconds when ids are built;   *)
(* the variable now is that second counter.                               *)
(*                                                                         *)
(* Progress values are kept exact as integers in units of 1/PD.            *)
(* Times inside a media file (durations, segment bounds) are integers in   *)
(* units of 1/TU second.                                                   *)
(***************************************************************************)
EXTENDS Integers, Sequences, FiniteSets, TLC

\* ------------------------------------------------------------------ bounds
MaxTime == 1
MaxSubmits == 2
MaxSegs == 2
MaxMedia == 1
MaxD10 == 3
\* duration of the shortest uploaded audio, in units of 1/TU second
ShortDur == 3
\* slides of an uploaded courseware
MaxSlides == 2
\* frames of short-time energy in one run of detect_speech_segments
MaxFrames == 7
\* the min_duration and max_duration a run is called with, in milliseconds
MinDurationMs == 10
MaxDurationMs == 20
\* segment audios of one stitching run
MaxParts == 3
\* features files in the voice_embeddings directory
MaxProfiles == 3
MaxUploads == 2
MaxSampleRuns == 3

\* --------------------------------------------------------------- utilities
RECURSIVE Fact(_)
Fact(n) == IF n <= 1 THEN 1 ELSE n * Fact(n - 1)

Max(a, b) == IF a >= b THEN a ELSE b

\* progress unit: 1.0 == PD, chosen so that 0.7 * (i+1) / n is exact for
\* every segment count n the model produces
PD == 10 * Fact(Max(Max(3, MaxD10), MaxSegs))
Frac(num, den) == (num * PD) \div den

Terminal == {"completed", "failed"}

\* error values (str(e) of the exception that reached the handler)
NoError == [kind |-> "none", index |-> -1, cause |-> "none"]
Err(kind) == [kind |-> kind, index |-> -1, cause |-> "none"]
SegErr_OneBased(i, cause) == [kind |-> "segment", index |-> i + 1, cause |-> cause]
\* ValueError(f"处理片段 {i} 失败: {e}")
SegErr(i, cause) == [kind |-> "segment", index |-> i, cause |-> cause]

\* time unit of media times: TU units are one second (the code's 0.2 s has
\* one decimal place)
TU == 10
\* the 0.2 s the uniform split takes off the end of each segment
Gap == TU \div 5

\* Segment(start, end, text): the text is not modelled
Segment(start, end) == [start |-> start, end |-> end]
NoTranscription == [set |-> FALSE, nseg |-> 0, segments |-> <<>>, total_duration |-> 0]
\* Transcription(segments, language, total_duration); nseg is len(segments)
Transcription(segments, total_duration) ==
    [set |-> TRUE, nseg |-> Len(segments), segments |-> segments,
     total_duration |-> total_duration]

\* ------------------------------------------------------------- identifiers
\* uploaded file names are represented by hash(file.filename) % 10000
Hashes == {1}
\* voice sample ids: head is the first 8 characters, tail the rest
VoiceIds == {[head |-> 1, tail |-> 1]}
Prefix8(voice_id) == voice_id.head

\* f"media_{int(time.time())}_{hash(file.filename) % 10000:04d}"
MediaId(t, h) == [t |-> t, h |-> h]
\* file_id[-6:]: last digit of the second, "_", four hash digits
Last6(file_id) == [d |-> file_id.t % 10, h |-> file_id.h]
\* f"transcribe_{int(time.time())}_{file_id[-6:]}"
TranscribeId(t, file_id) == [prefix |-> "transcribe", t |-> t, sfx |-> Last6(file_id)]
\* transcription_task_id[-6:] is the 6-character suffix the id was built from
\* f"replace_{int(time.time())}_{transcription_task_id[-6:]}"
ReplaceId(t, transcription_task_id) ==
    [prefix |-> "replace", t |-> t, sfx |-> transcription_task_id.sfx]
\* f"tts_{int(time.time())}_{voice_id[:8]}"
TtsId(t, voice_id) == [prefix |-> "tts", t |-> t, sfx |-> Prefix8(voice_id)]
NoId == [prefix |-> "none", t |-> 0, sfx |-> 0]

\* ------------------------------------------------------------------- state
VARIABLES
    now,                      \* int(time.time())
    calls,                    \* number of service calls made so far
    resp,                     \* outcome of the latest service call
    MEDIA_FILES_DB,           \* replace_service.MEDIA_FILES_DB
    VOICE_SAMPLES_DB,         \* voice_service.VOICE_SAMPLES_DB (ids)
    TRANSCRIPTION_TASKS_DB,   \* replace_service.TRANSCRIPTION_TASKS_DB
    ASR_TASKS_DB,             \* paddlespeech_asr.TRANSCRIPTION_TASKS_DB
    REPLACE_TASKS_DB,         \* replace_service.REPLACE_TASKS_DB
    TTS_TASKS_DB,             \* tts_service.TTS_TASKS_DB
    TRANSCRIPTION_TASKS_FILE, \* content of transcription_tasks.json
    COURSEWARE_DB,            \* course_service.COURSEWARE_DB
    COURSEWARE_TASKS_DB,      \* course_service.COURSEWARE_TASKS_DB
    workers,                  \* background tasks: one entry per add_task
    detect,                   \* a run of replace_service.detect_speech_segments
    stitch,                   \* a run of the stitching block of process_replace_task
    adapt,                    \* a call of VoiceCloner.adapt_tts_params
    similar,                  \* the voice_embeddings directory and a query on it
    voice                     \* voice_service: VOICE_SAMPLES_DB records and their files

\* the state of the services
appVars == <<now, calls, resp, MEDIA_FILES_DB, VOICE_SAMPLES_DB,
             TRANSCRIPTION_TASKS_DB, ASR_TASKS_DB, REPLACE_TASKS_DB,
             TTS_TASKS_DB, TRANSCRIPTION_TASKS_FILE, COURSEWARE_DB,
             COURSEWARE_TASKS_DB, workers>>

\* the state of the functions that are checked on their own
engineVars == <<detect, stitch, adapt, similar, voice>>

vars == <<appVars, engineVars>>

\* the state of course_service
courseVars == <<COURSEWARE_DB, COURSEWARE_TASKS_DB>>

\* ------------------------------------------------------- registry helpers
\* "for t in DB: if t.task_id == task_id: ...; break" : the first match
HasId(db, id) == \E j \in DOMAIN db : db[j].task_id = id
FirstIdx(db, id) == CHOOSE j \in DOMAIN db :
    db[j].task_id = id /\ \A k \in DOMAIN db : db[k].task_id = id => j <= k
First(db, id) == db[FirstIdx(db, id)]
\* assign the fields of upd on the first record whose task_id is id
Assign(db, id, upd) ==
    IF HasId(db, id)
    THEN [db EXCEPT ![FirstIdx(db, id)] =
            [f \in DOMAIN @ |-> IF f \in DOMAIN upd THEN upd[f] ELSE @[f]]]
    ELSE db

\* the content of an uploaded file, as far as the transcription worker sees
\* it: readable is whether librosa.load succeeds; dur is the duration it
\* returns, or file_size / (500 * 1024) when it fails; vad is what
\* detect_speech_segments returns for the audio
Audio(readable, dur, vad) == [readable |-> readable, dur |-> dur, vad |-> vad]
\* k detected intervals: 1.5 s of speech after 0.5 s of silence, k times
VadIntervals(k) == [j \in 1..k |-> Segment((j - 1) * 2 * TU + TU \div 2, j * 2 * TU)]
\* the files a client uploads: 10 * MaxD10 seconds of audio with 0..MaxSegs
\* detected intervals; ShortDur of audio, too short for an interval of
\* min_duration; a file librosa cannot load, whose size gives an estimate of
\* 10 * MaxD10 seconds
Audios ==
    {Audio(TRUE, 10 * MaxD10 * TU, VadIntervals(k)) : k \in 0..MaxSegs}
    \cup {Audio(TRUE, ShortDur, <<>>), Audio(FALSE, 10 * MaxD10 * TU, <<>>)}

\* MediaFileDB; duration is None (-1) until a transcription worker sets it
MediaFileDB(file_id, audio) == [file_id |-> file_id, audio |-> audio, duration |-> -1]
HasFile(file_id) ==
    \E j \in DOMAIN MEDIA_FILES_DB : MEDIA_FILES_DB[j].file_id = file_id
FirstFile(file_id) ==
    MEDIA_FILES_DB[CHOOSE j \in DOMAIN MEDIA_FILES_DB :
        /\ MEDIA_FILES_DB[j].file_id = file_id
        /\ \A m \in DOMAIN MEDIA_FILES_DB :
              MEDIA_FILES_DB[m].file_id = file_id => j <= m]

NoResp == [op |-> "none", arg |-> NoId, result |-> "none", task_id |-> NoId]
Resp(op, arg, result, id) == [op |-> op, arg |-> arg, result |-> result, task_id |-> id]

\* no call of the function is in progress
Idle == [pc |-> "idle"]

Worker(kind, id) ==
    [kind |-> kind, task_id |-> id, pc |-> "start",
     i |-> 0, n |-> 0, sub |-> NoId, segments |-> <<>>, duration |-> 0]

Init ==
    /\ now = 0
    /\ calls = 0
    /\ resp = NoResp
    /\ MEDIA_FILES_DB = <<>>
    /\ VOICE_SAMPLES_DB = {}
    /\ TRANSCRIPTION_TASKS_DB = <<>>
    /\ ASR_TASKS_DB = <<>>
    /\ REPLACE_TASKS_DB = <<>>
    /\ TTS_TASKS_DB = <<>>
    /\ TRANSCRIPTION_TASKS_FILE = <<>>
    /\ COURSEWARE_DB = <<>>
    /\ COURSEWARE_TASKS_DB = <<>>
    /\ workers = <<>>
    /\ detect = Idle
    /\ stitch = Idle
    /\ adapt = Idle
    /\ similar = Idle
    /\ voice = Idle

\* the wall clock reaches the next second
Tick ==
    /\ now < MaxTime
    /\ now' = now + 1
    /\ UNCHANGED <<calls, resp, MEDIA_FILES_DB, VOICE_SAMPLES_DB,
                   TRANSCRIPTION_TASKS_DB, ASR_TASKS_DB, REPLACE_TASKS_DB,
                   TTS_TASKS_DB, workers,
                   TRANSCRIPTION_TASKS_FILE, courseVars, engineVars>>

\* replace_service.upload_media
UploadMedia ==
    /\ Len(MEDIA_FILES_DB) < MaxMedia
    /\ \E h \in Hashes, audio \in Audios :
         MEDIA_FILES_DB' =
            Append(MEDIA_FILES_DB, MediaFileDB(MediaId(now, h), audio))
    /\ UNCHANGED <<now, calls, resp, VOICE_SAMPLES_DB,
                   TRANSCRIPTION_TASKS_DB, ASR_TASKS_DB, REPLACE_TASKS_DB,
                   TTS_TASKS_DB, workers,
                   TRANSCRIPTION_TASKS_FILE, courseVars, engineVars>>

\* voice_service.process_voice_sample: the record is stored whatever the
\* outcome of the analysis
ProcessVoiceSample ==
    /\ \E v \in VoiceIds :
         /\ v \notin VOICE_SAMPLES_DB
         /\ VOICE_SAMPLES_DB' = VOICE_SAMPLES_DB \cup {v}
    /\ UNCHANGED <<now, calls, resp, MEDIA_FILES_DB,
                   TRANSCRIPTION_TASKS_DB, ASR_TASKS_DB, REPLACE_TASKS_DB,
                   TTS_TASKS_DB, workers,
                   TRANSCRIPTION_TASKS_FILE, courseVars, engineVars>>

\* voice_service.delete_voice_sample as the other services see it: the
\* record is popped unless the first os.remove raises
DeleteVoiceSample ==
    /\ \E sample_id \in VOICE_SAMPLES_DB, fail \in {"none", "remove", "save"} :
         VOICE_SAMPLES_DB' = IF fail = "remove" THEN VOICE_SAMPLES_DB
                             ELSE VOICE_SAMPLES_DB \ {sample_id}
    /\ UNCHANGED <<now, calls, resp, MEDIA_FILES_DB,
                   TRANSCRIPTION_TASKS_DB, ASR_TASKS_DB, REPLACE_TASKS_DB,
                   TTS_TASKS_DB, workers,
                   TRANSCRIPTION_TASKS_FILE, courseVars, engineVars>>

\* ---------------------------------------------------------------- failure
\* except Exception as e: the handler marks the first record with this id
FailFirst(db, id, e) ==
    Assign(db, id, [status |-> "failed", error |-> e, updated_at |-> now])

\* save_transcription_tasks_db / save_transcription_tasks: open(file, 'w')
\* and json.dump of the saving module's whole list.  ok = FALSE: the save
\* raises and the file keeps its content.  Reading the file back
\* (json.load, TranscriptionTaskDB(**item)) gives the records that were
\* dumped.
Saved(ok, db, file) == IF ok THEN db ELSE file

\* a service call is made while the call budget lasts
CanCall == calls < MaxSubmits

\* file ids a caller may pass
FileIdInputs == {MediaId(t, h) : t \in 0..MaxTime, h \in Hashes}

TranscriptionTaskDB(id, file_id) ==
    [task_id |-> id, file_id |-> file_id, status |-> "processing",
     progress |-> 0, updated_at |-> -1,
     transcription |-> NoTranscription, error |-> NoError]

\* ------------------------------------------- replace_service transcription
\* replace_service.transcribe_media; io = FALSE: save_transcription_tasks_db
\* raises after the append, so that no worker is scheduled
TranscribeMedia ==
    /\ CanCall
    /\ calls' = calls + 1
    /\ \E file_id \in FileIdInputs, io \in BOOLEAN :
         LET id == TranscribeId(now, file_id) IN
         IF ~HasFile(file_id)
         THEN /\ resp' = Resp("transcribe_media", NoId, "NotFound", NoId)
              /\ UNCHANGED <<TRANSCRIPTION_TASKS_DB, workers,
                             TRANSCRIPTION_TASKS_FILE>>
         ELSE /\ TRANSCRIPTION_TASKS_DB' =
                    Append(TRANSCRIPTION_TASKS_DB, TranscriptionTaskDB(id, file_id))
              /\ TRANSCRIPTION_TASKS_FILE' =
                    Saved(io, TRANSCRIPTION_TASKS_DB', TRANSCRIPTION_TASKS_FILE)
              /\ IF io
                 THEN /\ workers' = Append(workers, Worker("transcribe", id))
                      /\ resp' = Resp("transcribe_media", NoId, "ok", id)
                 ELSE /\ resp' = Resp("transcribe_media", NoId, "IOError", NoId)
                      /\ UNCHANGED workers
    /\ UNCHANGED <<now, MEDIA_FILES_DB, VOICE_SAMPLES_DB, ASR_TASKS_DB,
                   REPLACE_TASKS_DB, TTS_TASKS_DB, courseVars, engineVars>>

\* num_segments = max(3, int(duration / 10))
NumSegments(duration) == Max(3, duration \div (10 * TU))

\* the uniform split of lines 319-325 and 332-338:
\* start = i * (duration / n), end = (i + 1) * (duration / n) - 0.2
FallbackSegments(duration) ==
    LET n == NumSegments(duration) IN
    [j \in 1..n |-> Segment((j - 1) * (duration \div n),
                            j * (duration \div n) - Gap)]

LoadSegments_AlwaysSplit(audio) == FallbackSegments(audio.dur)
\* the segments the worker ends up with (lines 307-338): the uniform split
\* of the estimated duration when the audio cannot be loaded, the detected
\* intervals otherwise, the uniform split when none was detected
LoadSegments(audio) ==
    IF ~audio.readable THEN FallbackSegments(audio.dur)
    ELSE IF audio.vad = <<>> THEN FallbackSegments(audio.dur)
    ELSE audio.vad

\* MEDIA_FILES_DB[i].duration = duration on the first file with this id
SetDuration(mdb, file_id, duration) ==
    LET j == CHOOSE j \in DOMAIN mdb :
                 /\ mdb[j].file_id = file_id
                 /\ \A m \in DOMAIN mdb : mdb[m].file_id = file_id => j <= m
    IN [mdb EXCEPT ![j].duration = duration]

\* process_transcription_task, from its start to asyncio.sleep(2.0).
\* fail names the statement that raises: "none", "save1" (first
\* save_transcription_tasks_db), "save_media", "save2".  hsave: the save of
\* the handler (line 447) succeeds.
TransDetect(w) ==
    /\ w \in DOMAIN workers
    /\ workers[w].kind = "transcribe" /\ workers[w].pc = "start"
    /\ HasId(TRANSCRIPTION_TASKS_DB, workers[w].task_id)
    /\ \E fail \in {"none", "save1", "save_media", "save2"}, hsave \in BOOLEAN :
         LET id == workers[w].task_id
             db0 == TRANSCRIPTION_TASKS_DB
             task == First(db0, id)
             media_file == FirstFile(task.file_id)
             duration == media_file.audio.dur
             segments == LoadSegments(media_file.audio)
             db1 == Assign(db0, id, [status |-> "processing",
                                     progress |-> Frac(1, 10),
                                     updated_at |-> now])
             db2 == Assign(db1, id, [progress |-> Frac(3, 10),
                                     updated_at |-> now])
             mdb1 == SetDuration(MEDIA_FILES_DB, task.file_id, duration)
             file0 == TRANSCRIPTION_TASKS_FILE
         IN
         IF ~HasFile(task.file_id)
         THEN /\ TRANSCRIPTION_TASKS_DB' = FailFirst(db0, id, Err("media_not_found"))
              /\ TRANSCRIPTION_TASKS_FILE' =
                    Saved(hsave, TRANSCRIPTION_TASKS_DB', file0)
              /\ workers' = [workers EXCEPT ![w].pc = "done"]
              /\ UNCHANGED MEDIA_FILES_DB
         ELSE IF fail = "save1"
         THEN /\ TRANSCRIPTION_TASKS_DB' = FailFirst(db1, id, Err("io"))
              /\ TRANSCRIPTION_TASKS_FILE' =
                    Saved(hsave, TRANSCRIPTION_TASKS_DB', file0)
              /\ workers' = [workers EXCEPT ![w].pc = "done"]
              /\ UNCHANGED MEDIA_FILES_DB
         ELSE IF fail = "save_media"
         THEN /\ TRANSCRIPTION_TASKS_DB' = FailFirst(db1, id, Err("io"))
              /\ TRANSCRIPTION_TASKS_FILE' =
                    Saved(hsave, TRANSCRIPTION_TASKS_DB', db1)
              /\ workers' = [workers EXCEPT ![w].pc = "done"]
              /\ MEDIA_FILES_DB' = mdb1
         ELSE IF fail = "save2"
         THEN /\ TRANSCRIPTION_TASKS_DB' = FailFirst(db2, id, Err("io"))
              /\ TRANSCRIPTION_TASKS_FILE' =
                    Saved(hsave, TRANSCRIPTION_TASKS_DB', db1)
              /\ workers' = [workers EXCEPT ![w].pc = "done"]
              /\ MEDIA_FILES_DB' = mdb1
         ELSE /\ TRANSCRIPTION_TASKS_DB' = db2
              /\ TRANSCRIPTION_TASKS_FILE' = db2
              /\ workers' = [workers EXCEPT ![w].pc = "generate",
                                            ![w].n = Len(segments),
                                            ![w].segments = segments,
                                            ![w].duration = duration]
              /\ MEDIA_FILES_DB' = mdb1
    /\ UNCHANGED <<now, calls, resp, VOICE_SAMPLES_DB,
                   ASR_TASKS_DB, REPLACE_TASKS_DB, TTS_TASKS_DB, courseVars, engineVars>>

\* process_transcription_task, from asyncio.sleep(2.0) to asyncio.sleep(1.0):
\* generate the transcription, progress 0.7, write the subtitle files
TransGenerate(w) ==
    /\ w \in DOMAIN workers
    /\ workers[w].kind = "transcribe" /\ workers[w].pc = "generate"
    /\ \E io \in BOOLEAN, hsave \in BOOLEAN :
         LET id == workers[w].task_id
             db1 == Assign(TRANSCRIPTION_TASKS_DB, id,
                           [progress |-> Frac(7, 10), updated_at |-> now])
         IN
         IF io
         THEN /\ TRANSCRIPTION_TASKS_DB' = db1
              /\ TRANSCRIPTION_TASKS_FILE' = db1
              /\ workers' = [workers EXCEPT ![w].pc = "complete"]
         ELSE /\ TRANSCRIPTION_TASKS_DB' = FailFirst(db1, id, Err("io"))
              /\ TRANSCRIPTION_TASKS_FILE' =
                    Saved(hsave, TRANSCRIPTION_TASKS_DB',
                          TRANSCRIPTION_TASKS_FILE)
              /\ workers' = [workers EXCEPT ![w].pc = "done"]
    /\ UNCHANGED <<now, calls, resp, MEDIA_FILES_DB, VOICE_SAMPLES_DB,
                   ASR_TASKS_DB, REPLACE_TASKS_DB, TTS_TASKS_DB, courseVars, engineVars>>

\* generate_realistic_transcription(name, duration, segments): one Segment
\* per interval, in order, with the interval's bounds; total_duration is the
\* duration passed in
GenerateRealisticTranscription(duration, segments) ==
    Transcription([j \in 1..Len(segments) |->
                      Segment(segments[j].start, segments[j].end)],
                  duration)

\* the assignments of the completion block (lines 423-433)
TransCompleteFields(transcription) ==
    [status |-> "completed", progress |-> PD, updated_at |-> now,
     transcription |-> transcription]

\* process_transcription_task after asyncio.sleep(1.0): the completion
\* block, its save, and the handler when that save raises
TransComplete(w) ==
    /\ w \in DOMAIN workers
    /\ workers[w].kind = "transcribe" /\ workers[w].pc = "complete"
    /\ \E io \in BOOLEAN, hsave \in BOOLEAN :
         LET id == workers[w].task_id
             transcription ==
                 GenerateRealisticTranscription(workers[w].duration,
                                                workers[w].segments)
             db1 == Assign(TRANSCRIPTION_TASKS_DB, id,
                           TransCompleteFields(transcription))
         IN
         /\ TRANSCRIPTION_TASKS_DB' =
               IF io THEN db1 ELSE FailFirst(db1, id, Err("io"))
         /\ TRANSCRIPTION_TASKS_FILE' =
               Saved(io \/ hsave, TRANSCRIPTION_TASKS_DB',
                     TRANSCRIPTION_TASKS_FILE)
         /\ workers' = [workers EXCEPT ![w].pc = "done"]
    /\ UNCHANGED <<now, calls, resp, MEDIA_FILES_DB, VOICE_SAMPLES_DB,
                   ASR_TASKS_DB, REPLACE_TASKS_DB, TTS_TASKS_DB, courseVars, engineVars>>

\* ------------------------------------------ paddlespeech_asr transcription
\* paddlespeech_asr.transcribe_media (the /replace/transcribe endpoint)
AsrTranscribeMedia ==
    /\ CanCall
    /\ calls' = calls + 1
    /\ \E file_id \in FileIdInputs, io \in BOOLEAN :
         LET id == TranscribeId(now, file_id) IN
         IF ~HasFile(file_id)
         THEN /\ resp' = Resp("asr_transcribe_media", NoId, "NotFound", NoId)
              /\ UNCHANGED <<ASR_TASKS_DB, workers, TRANSCRIPTION_TASKS_FILE>>
         ELSE /\ ASR_TASKS_DB' =
                    Append(ASR_TASKS_DB, TranscriptionTaskDB(id, file_id))
              /\ TRANSCRIPTION_TASKS_FILE' =
                    Saved(io, ASR_TASKS_DB', TRANSCRIPTION_TASKS_FILE)
              /\ IF io
                 THEN /\ workers' = Append(workers, Worker("asr", id))
                      /\ resp' = Resp("asr_transcribe_media", NoId, "ok", id)
                 ELSE /\ resp' = Resp("asr_transcribe_media", NoId, "IOError", NoId)
                      /\ UNCHANGED workers
    /\ UNCHANGED <<now, MEDIA_FILES_DB, VOICE_SAMPLES_DB,
                   TRANSCRIPTION_TASKS_DB, REPLACE_TASKS_DB, TTS_TASKS_DB, courseVars, engineVars>>

\* paddlespeech_asr.process_transcription_task.  asr_executor is None
\* (line 29) until init_asr_service assigns it (line 264), and nothing calls
\* init_asr_service: asr_executor.transcribe at line 365 raises
\* AttributeError and the handler marks the task failed.  The worker has no
\* asyncio.sleep before that, so it is one step.  io = FALSE: the save at
\* line 352 raises first.  hsave: the save of the handler (line 463)
\* succeeds.
AsrProcess(w) ==
    /\ w \in DOMAIN workers
    /\ workers[w].kind = "asr" /\ workers[w].pc = "start"
    /\ HasId(ASR_TASKS_DB, workers[w].task_id)
    /\ \E io \in BOOLEAN, hsave \in BOOLEAN :
         LET id == workers[w].task_id
             db0 == ASR_TASKS_DB
             task == First(db0, id)
             db1 == Assign(db0, id, [status |-> "processing",
                                     progress |-> Frac(1, 10),
                                     updated_at |-> now])
         IN
         /\ ASR_TASKS_DB' =
               IF ~HasFile(task.file_id)
               THEN FailFirst(db0, id, Err("media_not_found"))
               ELSE FailFirst(db1, id, Err(IF io THEN "executor_none" ELSE "io"))
         /\ TRANSCRIPTION_TASKS_FILE' =
               Saved(hsave, ASR_TASKS_DB',
                     IF HasFile(task.file_id) /\ io
                     THEN db1 ELSE TRANSCRIPTION_TASKS_FILE)
    /\ workers' = [workers EXCEPT ![w].pc = "done"]
    /\ UNCHANGED <<now, calls, resp, MEDIA_FILES_DB, VOICE_SAMPLES_DB,
                   TRANSCRIPTION_TASKS_DB, REPLACE_TASKS_DB, TTS_TASKS_DB, courseVars, engineVars>>

\* ------------------------------------- voice_clone.VoiceCloner.adapt_tts_params
\* A params dict is a function from its keys to their values.  pitch,
\* energy and speed are kept exact as integers in units of 1/1000.  An
\* embedding is the sequence of its components; slot 1 (pitch_mean) is in
\* Hz, slot 3 (energy_mean) in units of 1/100.
Get(params, key, default) == IF key \in DOMAIN params THEN params[key] ELSE default
Put(params, key, value) ==
    [k \in DOMAIN params \cup {key} |-> IF k = key THEN value ELSE params[k]]
Clamp(lo, hi, x) == Max(lo, IF x <= hi THEN x ELSE hi)

\* lines 297-331 on the dict params refers to
AdaptWrites(embedding, params) ==
    IF Len(embedding) > 50
    THEN Put(params, "speaker_embedding", embedding)
    ELSE IF Len(embedding) < 4
    THEN params         \* IndexError at lines 304-307, caught at line 327
    ELSE LET pitch_mean == embedding[1]
             energy_mean == embedding[3]
             base_pitch == Get(params, "pitch", 0)
             p1 == IF 100 < pitch_mean /\ pitch_mean < 300
                   THEN Put(params, "pitch", base_pitch + 3 * (pitch_mean - 170))
                   ELSE params
             base_energy == Get(p1, "energy", 1000)
             p2 == IF energy_mean > 0
                   THEN Put(p1, "energy",
                            (base_energy * Clamp(80, 120, 90 + energy_mean)) \div 100)
                   ELSE p1
         IN IF "pitch" \notin DOMAIN p2
            THEN p2     \* KeyError at line 324, caught at line 327
            ELSE LET p3 == Put(p2, "pitch", Clamp(-1000, 1000, p2["pitch"])) IN
                 IF "energy" \notin DOMAIN p3
                 THEN p3    \* KeyError at line 325, caught at line 327
                 ELSE Put(p3, "energy", Clamp(500, 2000, p3["energy"]))

\* the value adapt_tts_params(embedding, base_params) returns
AdaptTtsParams(embedding, base_params) == AdaptWrites(embedding, base_params)

\* params = base_params: the same dict under a second name
DictCopy_SameObject(d) == [object |-> "base_params", content |-> d]
\* params = base_params.copy(): a new dict with the same items
DictCopy(d) == [object |-> "params", content |-> d]

\* what VoiceCloner.load_voice_embedding returns for a voice sample that
\* voice_service.process_voice_sample has analysed: the features file has no
\* embedding_type, so line 227 returns its mfcc_fingerprint, 13 coefficients.
\* The first one is negative (log energy, here -300) and the third one is
\* taken positive (here 20.0, in units of 1/100).
VoiceEmbedding(voice_id) ==
    [j \in 1..13 |-> IF j = 1 THEN -300 ELSE IF j = 3 THEN 2000 ELSE 0]

\* the params a task is submitted with: the dict of process_replace_task
\* (lines 560-567) and TTSParams() of the endpoints, as far as
\* adapt_tts_params reads them
SubmittedParams == [speed |-> 1000, pitch |-> 0, energy |-> 1000]

\* ------------------------------------------------------ tts_service tasks
\* text identifies the segment a task synthesizes: segment seg of the
\* transcript handled by background task w
SegmentText(w, seg) == [w |-> w, seg |-> seg]

TTSTaskDB(id, text, voice_id) ==
    [task_id |-> id, text |-> text, voice_id |-> voice_id,
     params |-> SubmittedParams,
     status |-> "pending", progress |-> 0, updated_at |-> -1,
     file_path |-> "None", error |-> NoError]

\* lines 455-459: task.params becomes what adapt_tts_params returns for it
AdaptTask(db, id) ==
    Assign(db, id,
           [params |-> AdaptTtsParams(VoiceEmbedding(First(db, id).voice_id),
                                      First(db, id).params)])

\* a handler that files a failed record for a task it does not find
ProcessTtsTask_Upsert(db, id, io) ==
    IF HasId(db, id)
    THEN FailFirst(db, id, Err("unbound_text"))
    ELSE Append(db, [TTSTaskDB(id, SegmentText(0, 0), CHOOSE v \in VoiceIds : TRUE)
                       EXCEPT !.status = "failed"])
\* a handler that leaves the task as line 446 saved it
ProcessTtsTask_NoHandler(db, id, io) ==
    Assign(db, id, [status |-> "processing", progress |-> Frac(1, 10),
                    updated_at |-> now])
\* tts_service.process_tts_task, the whole handler (it never reaches an
\* asyncio.sleep): line 462 reads the local variable text, which is assigned
\* only at line 468, so the call raises UnboundLocalError and the handler
\* marks the task failed.  io = FALSE: the save at line 446 raises first.
ProcessTtsTask(db, id, io) ==
    LET db1 == Assign(db, id, [status |-> "processing",
                               progress |-> Frac(1, 10),
                               updated_at |-> now])
    IN IF ~HasId(db, id) THEN db
       ELSE IF First(db, id).voice_id \notin VOICE_SAMPLES_DB
       THEN FailFirst(db1, id, Err("voice_not_found"))
       ELSE IF io
       THEN FailFirst(AdaptTask(db1, id), id, Err("unbound_text"))
       ELSE FailFirst(db1, id, Err("io"))

\* tts_service.synthesize_speech called by a client (integration layer,
\* /tts endpoints of tts.py); the worker runs after the response
SynthesizeSpeech ==
    /\ CanCall
    /\ calls' = calls + 1
    /\ \E voice_id \in VoiceIds, io \in BOOLEAN :
         LET id == TtsId(now, voice_id) IN
         IF voice_id \notin VOICE_SAMPLES_DB
         THEN /\ resp' = Resp("synthesize_speech", NoId, "NotFound", NoId)
              /\ UNCHANGED <<TTS_TASKS_DB, workers>>
         ELSE /\ TTS_TASKS_DB' =
                    Append(TTS_TASKS_DB, TTSTaskDB(id, SegmentText(0, 0), voice_id))
              /\ IF io
                 THEN /\ workers' = Append(workers, Worker("tts", id))
                      /\ resp' = Resp("synthesize_speech", NoId, "ok", id)
                 ELSE /\ resp' = Resp("synthesize_speech", NoId, "IOError", NoId)
                      /\ UNCHANGED workers
    /\ UNCHANGED <<now, MEDIA_FILES_DB, VOICE_SAMPLES_DB,
                   TRANSCRIPTION_TASKS_DB, ASR_TASKS_DB, REPLACE_TASKS_DB,
                   TRANSCRIPTION_TASKS_FILE, courseVars, engineVars>>

\* the background task of a client's synthesize_speech
TtsRun(w) ==
    /\ w \in DOMAIN workers
    /\ workers[w].kind = "tts" /\ workers[w].pc = "start"
    /\ \E io \in BOOLEAN :
         TTS_TASKS_DB' = ProcessTtsTask(TTS_TASKS_DB, workers[w].task_id, io)
    /\ workers' = [workers EXCEPT ![w].pc = "done"]
    /\ UNCHANGED <<now, calls, resp, MEDIA_FILES_DB, VOICE_SAMPLES_DB,
                   TRANSCRIPTION_TASKS_DB, ASR_TASKS_DB, REPLACE_TASKS_DB,
                   TRANSCRIPTION_TASKS_FILE, courseVars, engineVars>>

\* tts_service.get_tts_task_status(task_id).status
TtsStatus(db, id) == IF HasId(db, id) THEN First(db, id).status ELSE "None"
\* tts_service.get_tts_task_result(task_id): the status of a completed task
\* whose output file exists, or None
GetTtsTaskResult(db, id, exists) ==
    IF TtsStatus(db, id) = "completed" /\ exists
    THEN [found |-> TRUE, status |-> "completed"]
    ELSE [found |-> FALSE, status |-> "None"]

\* ------------------------------------------------ replace_service replace
ReplaceTaskDB(id, transcription_task_id, voice_id) ==
    [task_id |-> id, transcription_task_id |-> transcription_task_id,
     voice_id |-> voice_id, status |-> "processing", progress |-> 0,
     updated_at |-> -1, file_path |-> "None", error |-> NoError]

\* transcription task ids a caller may pass: ids some submit has returned
KnownTranscriptionIds ==
    {TRANSCRIPTION_TASKS_DB[j].task_id : j \in DOMAIN TRANSCRIPTION_TASKS_DB}
    \cup {ASR_TASKS_DB[j].task_id : j \in DOMAIN ASR_TASKS_DB}

PrerequisiteReady_Any(ttid) == TRUE
\* the check at line 467 of replace_voice
PrerequisiteReady(ttid) ==
    First(TRANSCRIPTION_TASKS_DB, ttid).status = "completed"

\* replace_service.replace_voice
ReplaceVoice ==
    /\ CanCall
    /\ calls' = calls + 1
    /\ \E ttid \in KnownTranscriptionIds, voice_id \in VoiceIds, io \in BOOLEAN :
         LET id == ReplaceId(now, ttid) IN
         IF ~HasId(TRANSCRIPTION_TASKS_DB, ttid)
         THEN /\ resp' = Resp("replace_voice", ttid, "NotFound", NoId)
              /\ UNCHANGED <<REPLACE_TASKS_DB, workers>>
         ELSE IF ~PrerequisiteReady(ttid)
         THEN /\ resp' = Resp("replace_voice", ttid, "PrerequisiteNotReady", NoId)
              /\ UNCHANGED <<REPLACE_TASKS_DB, workers>>
         ELSE /\ REPLACE_TASKS_DB' =
                    Append(REPLACE_TASKS_DB, ReplaceTaskDB(id, ttid, voice_id))
              /\ IF io
                 THEN /\ workers' = Append(workers, Worker("replace", id))
                      /\ resp' = Resp("replace_voice", ttid, "ok", id)
                 ELSE /\ resp' = Resp("replace_voice", ttid, "IOError", NoId)
                      /\ UNCHANGED workers
    /\ UNCHANGED <<now, MEDIA_FILES_DB, VOICE_SAMPLES_DB,
                   TRANSCRIPTION_TASKS_DB, ASR_TASKS_DB, TTS_TASKS_DB,
                   TRANSCRIPTION_TASKS_FILE, courseVars, engineVars>>

\* result of a piece of worker code: the two registries and the worker
Out(rdb, tdb, wk) == [rdb |-> rdb, tdb |-> tdb, wk |-> wk]
\* the outer handler of process_replace_task (lines 720-729)
ReplaceFail(rdb, tdb, wk, e) ==
    Out(FailFirst(rdb, wk.task_id, e), tdb, [wk EXCEPT !.pc = "done"])

\* a fan-out that submits the sub-tasks of all remaining segments at once
\* and leaves them to run in the background
ReplaceSegment_FanOut(rdb, tdb, wk, w, i, n, fail) ==
    LET id == wk.task_id
        task == First(rdb, id)
        tts_task_id == TtsId(now, task.voice_id)
        Sub(seg) == TTSTaskDB(tts_task_id, SegmentText(w, seg), task.voice_id)
    IN Out(rdb, tdb \o [m \in 1..(n - i) |-> Sub(i + m - 1)],
           [wk EXCEPT !.pc = "poll", !.i = i, !.n = n, !.sub = tts_task_id])

\* process_replace_task, one iteration of the segment loop from its head
\* (line 573) to the asyncio.sleep(0.5) at line 599, for segment i of n.
\* fail names the statement that raises: "save_progress" (line 582),
\* "save_tts" (save_tts_tasks inside synthesize_speech), "tts_save" (the
\* save at line 446 of the sub-task run by temp_bg_tasks()).
ReplaceSegment(rdb, tdb, wk, w, i, n, fail) ==
    LET id == wk.task_id
        task == First(rdb, id)
        rdb1 == Assign(rdb, id,
                       [progress |-> Frac(1, 10) + (Frac(7, 10) * (i + 1)) \div n,
                        updated_at |-> now])
        tts_task_id == TtsId(now, task.voice_id)
        tdb1 == Append(tdb, TTSTaskDB(tts_task_id, SegmentText(w, i), task.voice_id))
        tdb2 == ProcessTtsTask(tdb1, tts_task_id, fail # "tts_save")
    IN IF fail = "save_progress" THEN ReplaceFail(rdb1, tdb, wk, Err("io"))
       ELSE IF task.voice_id \notin VOICE_SAMPLES_DB
       THEN ReplaceFail(rdb1, tdb, wk, SegErr(i, "voice_not_found"))
       ELSE IF fail = "save_tts"
       THEN ReplaceFail(rdb1, tdb1, wk, SegErr(i, "io"))
       ELSE Out(rdb1, tdb2,
                [wk EXCEPT !.pc = "poll", !.i = i, !.n = n, !.sub = tts_task_id])

SegmentFails == {"none", "save_progress", "save_tts", "tts_save"}
FinishFails == {"none", "save_progress", "save_final"}

\* process_replace_task from its start to the first asyncio.sleep(0.5).
\* early names a statement before the loop that raises: "save1" (line 534),
\* "save_name" (line 553)
ReplaceStart(w) ==
    /\ w \in DOMAIN workers
    /\ workers[w].kind = "replace" /\ workers[w].pc = "start"
    /\ HasId(REPLACE_TASKS_DB, workers[w].task_id)
    /\ \E early \in {"none", "save1", "save_name"}, fail \in SegmentFails :
         LET wk == workers[w]
             id == wk.task_id
             task == First(REPLACE_TASKS_DB, id)
             ttid == task.transcription_task_id
             transcription_task == First(TRANSCRIPTION_TASKS_DB, ttid)
             transcription == transcription_task.transcription
             rdb1 == Assign(REPLACE_TASKS_DB, id,
                            [status |-> "processing", progress |-> Frac(1, 10),
                             updated_at |-> now])
             out ==
               IF ~HasId(TRANSCRIPTION_TASKS_DB, ttid)
               THEN ReplaceFail(REPLACE_TASKS_DB, TTS_TASKS_DB, wk,
                                Err("transcription_not_found"))
               ELSE IF ~HasFile(transcription_task.file_id)
               THEN ReplaceFail(REPLACE_TASKS_DB, TTS_TASKS_DB, wk,
                                Err("media_not_found"))
               ELSE IF early # "none"
               THEN ReplaceFail(rdb1, TTS_TASKS_DB, wk, Err("io"))
               ELSE IF ~transcription.set \/ transcription.nseg = 0
               THEN ReplaceFail(rdb1, TTS_TASKS_DB, wk, Err("empty_transcription"))
               ELSE ReplaceSegment(rdb1, TTS_TASKS_DB, wk, w, 0,
                                   transcription.nseg, fail)
         IN /\ REPLACE_TASKS_DB' = out.rdb
            /\ TTS_TASKS_DB' = out.tdb
            /\ workers' = [workers EXCEPT ![w] = out.wk]
    /\ UNCHANGED <<now, calls, resp, MEDIA_FILES_DB, VOICE_SAMPLES_DB,
                   TRANSCRIPTION_TASKS_DB, ASR_TASKS_DB,
                   TRANSCRIPTION_TASKS_FILE, courseVars, engineVars>>

\* process_replace_task after the segment loop (lines 633-717): progress
\* 0.8, the stitched (or copied) output file, the completion block.  No
\* segment audio was recorded on the only path that gets here, so the output
\* is a copy of the original file.
\* fail: "save_progress" (line 640) or "save_final" (line 717) raises.
ReplaceFinish(rdb, tdb, wk, fail) ==
    LET id == wk.task_id
        rdb1 == Assign(rdb, id, [progress |-> Frac(8, 10), updated_at |-> now])
        rdb2 == Assign(rdb1, id, [status |-> "completed", progress |-> PD,
                                  updated_at |-> now,
                                  file_path |-> "output_path"])
    IN IF fail = "save_progress" THEN ReplaceFail(rdb1, tdb, wk, Err("io"))
       ELSE IF fail = "save_final" THEN ReplaceFail(rdb2, tdb, wk, Err("io"))
       ELSE Out(rdb2, tdb, [wk EXCEPT !.pc = "done"])

OnSubTaskFailed_Continue(rdb, tdb, wk, w, fail) ==
    IF wk.i + 1 < wk.n
    THEN ReplaceSegment(rdb, tdb, wk, w, wk.i + 1, wk.n, fail)
    ELSE ReplaceFinish(rdb, tdb, wk, fail)
\* the sub-task of segment wk.i ended failed (lines 626-631): ValueError,
\* wrapped with the segment index, reaches the outer handler
OnSubTaskFailed(rdb, tdb, wk, w, fail) ==
    ReplaceFail(rdb, tdb, wk, SegErr(wk.i, "tts_failed"))

\* process_replace_task resumed from an asyncio.sleep(0.5) of the polling
\* loop (lines 601-631) and run to the next sleep or to its return.
\* exists: os.path.exists of the sub-task's output file.
ReplacePoll(w) ==
    /\ w \in DOMAIN workers
    /\ workers[w].kind = "replace" /\ workers[w].pc = "poll"
    /\ \E exists \in BOOLEAN, fail \in SegmentFails \cup FinishFails :
         LET wk == workers[w]
             i == wk.i
             tts_status == TtsStatus(TTS_TASKS_DB, wk.sub)
             out ==
               IF tts_status \notin Terminal
               THEN Out(REPLACE_TASKS_DB, TTS_TASKS_DB, wk)
               ELSE IF tts_status = "failed"
               THEN OnSubTaskFailed(REPLACE_TASKS_DB, TTS_TASKS_DB, wk, w, fail)
               ELSE IF exists
               THEN \* tts_result.file_path: TTSTaskStatus has no such field
                    ReplaceFail(REPLACE_TASKS_DB, TTS_TASKS_DB, wk,
                                SegErr(i, "attribute_error"))
               ELSE IF i + 1 < wk.n
               THEN ReplaceSegment(REPLACE_TASKS_DB, TTS_TASKS_DB, wk, w,
                                   i + 1, wk.n, fail)
               ELSE ReplaceFinish(REPLACE_TASKS_DB, TTS_TASKS_DB, wk, fail)
         IN /\ REPLACE_TASKS_DB' = out.rdb
            /\ TTS_TASKS_DB' = out.tdb
            /\ workers' = [workers EXCEPT ![w] = out.wk]
    /\ UNCHANGED <<now, calls, resp, MEDIA_FILES_DB, VOICE_SAMPLES_DB,
                   TRANSCRIPTION_TASKS_DB, ASR_TASKS_DB,
                   TRANSCRIPTION_TASKS_FILE, courseVars, engineVars>>

\* replace_service.get_task_status: the transcription registry of
\* replace_service first, then the replace registry
GetTaskStatus(task_id) ==
    IF HasId(TRANSCRIPTION_TASKS_DB, task_id)
    THEN [found |-> TRUE, task_type |-> "transcribe",
          status |-> First(TRANSCRIPTION_TASKS_DB, task_id).status]
    ELSE IF HasId(REPLACE_TASKS_DB, task_id)
    THEN [found |-> TRUE, task_type |-> "replace",
          status |-> First(REPLACE_TASKS_DB, task_id).status]
    ELSE [found |-> FALSE, task_type |-> "None", status |-> "None"]

Next ==
    \/ Tick
    \/ UploadMedia
    \/ ProcessVoiceSample
    \/ TranscribeMedia
    \/ \E w \in DOMAIN workers : TransDetect(w)
    \/ \E w \in DOMAIN workers : TransGenerate(w)
    \/ \E w \in DOMAIN workers : TransComplete(w)
    \/ AsrTranscribeMedia
    \/ \E w \in DOMAIN workers : AsrProcess(w)
    \/ SynthesizeSpeech
    \/ \E w \in DOMAIN workers : TtsRun(w)
    \/ ReplaceVoice
    \/ \E w \in DOMAIN workers : ReplaceStart(w)
    \/ \E w \in DOMAIN workers : ReplacePoll(w)

Spec == Init /\ [][Next]_vars

\* ---------------------------------------------------------- course_service
\* f"course_{int(time.time())}_{hash(file.filename) % 10000:04d}"
CoursewareId(t, h) == [t |-> t, h |-> h]
\* f"course_task_{int(time.time())}_{file_id[-6:]}"
CourseTaskId(t, file_id) == [prefix |-> "course_task", t |-> t, sfx |-> Last6(file_id)]

\* CoursewareDB after extract_text: slides is len(extracted_text); every
\* slide's text is one chunk of split_text_into_chunks
CoursewareDB(file_id, slides) == [file_id |-> file_id, slides |-> slides]
CoursewareTaskDB(id, file_id, voice_id, total_slides) ==
    [task_id |-> id, file_id |-> file_id, voice_id |-> voice_id,
     status |-> "processing", progress |-> 0, slides_processed |-> 0,
     total_slides |-> total_slides, file_path |-> "None",
     updated_at |-> -1, error |-> NoError]

HasCourseware(file_id) ==
    \E j \in DOMAIN COURSEWARE_DB : COURSEWARE_DB[j].file_id = file_id
FirstCourseware(file_id) ==
    COURSEWARE_DB[CHOOSE j \in DOMAIN COURSEWARE_DB :
        /\ COURSEWARE_DB[j].file_id = file_id
        /\ \A m \in DOMAIN COURSEWARE_DB :
              COURSEWARE_DB[m].file_id = file_id => j <= m]

\* course_service.upload_courseware
UploadCourseware ==
    /\ Len(COURSEWARE_DB) < MaxMedia
    /\ \E h \in Hashes, slides \in 1..MaxSlides :
         COURSEWARE_DB' =
            Append(COURSEWARE_DB, CoursewareDB(CoursewareId(now, h), slides))
    /\ UNCHANGED <<now, calls, resp, MEDIA_FILES_DB, VOICE_SAMPLES_DB,
                   TRANSCRIPTION_TASKS_DB, ASR_TASKS_DB, REPLACE_TASKS_DB,
                   TTS_TASKS_DB, TRANSCRIPTION_TASKS_FILE,
                   COURSEWARE_TASKS_DB, workers, engineVars>>

\* course_service.generate_voiced_courseware; io = FALSE:
\* save_courseware_tasks_db raises after the append
GenerateVoicedCourseware ==
    /\ CanCall
    /\ calls' = calls + 1
    /\ \E file_id \in FileIdInputs, voice_id \in VoiceIds, io \in BOOLEAN :
         LET id == CourseTaskId(now, file_id) IN
         IF ~HasCourseware(file_id)
         THEN /\ resp' = Resp("generate_voiced_courseware", NoId, "NotFound", NoId)
              /\ UNCHANGED <<COURSEWARE_TASKS_DB, workers>>
         ELSE /\ COURSEWARE_TASKS_DB' =
                    Append(COURSEWARE_TASKS_DB,
                           CoursewareTaskDB(id, file_id, voice_id,
                                            FirstCourseware(file_id).slides))
              /\ IF io
                 THEN /\ workers' = Append(workers, Worker("course", id))
                      /\ resp' = Resp("generate_voiced_courseware", NoId, "ok", id)
                 ELSE /\ resp' = Resp("generate_voiced_courseware", NoId,
                                      "IOError", NoId)
                      /\ UNCHANGED workers
    /\ UNCHANGED <<now, MEDIA_FILES_DB, VOICE_SAMPLES_DB,
                   TRANSCRIPTION_TASKS_DB, ASR_TASKS_DB, REPLACE_TASKS_DB,
                   TTS_TASKS_DB, TRANSCRIPTION_TASKS_FILE, COURSEWARE_DB, engineVars>>

\* the outer handler of process_courseware_task (lines 534-543): file_path
\* keeps the value it has
CourseFail(cdb, tdb, wk, e) ==
    Out(FailFirst(cdb, wk.task_id, e), tdb, [wk EXCEPT !.pc = "done"])

CourseFails == {"none", "save_progress", "save_tts", "tts_save", "copy", "save_final"}

\* process_courseware_task after the slide loop (lines 493-531): progress
\* 0.9, the copy of the courseware file, the manifest, the completion block.
\* fail: "save_progress" (line 501), "copy" (shutil.copy2, line 505) or
\* "save_final" (line 531) raises.
CourseFinish(cdb, tdb, wk, n, fail) ==
    LET id == wk.task_id
        cdb1 == Assign(cdb, id, [progress |-> Frac(9, 10),
                                 slides_processed |-> n, updated_at |-> now])
        cdb2 == Assign(cdb1, id, [status |-> "completed", progress |-> PD,
                                  updated_at |-> now,
                                  file_path |-> "output_path"])
    IN IF fail = "save_progress" THEN CourseFail(cdb1, tdb, wk, Err("io"))
       ELSE IF fail = "copy" THEN CourseFail(cdb1, tdb, wk, Err("copy"))
       ELSE IF fail = "save_final" THEN CourseFail(cdb2, tdb, wk, Err("io"))
       ELSE Out(cdb2, tdb, [wk EXCEPT !.pc = "done"])

\* process_courseware_task, the slide loop from the head of iteration i
\* (line 407) to the asyncio.sleep(1) at line 458, or through the remaining
\* slides to the return when no sub-task gets that far: an exception of
\* synthesize_speech (unknown voice, or "save_tts": its save raises) is
\* caught at line 483 and the loop goes on with the next slide.
\* "tts_save": the save at line 446 of the sub-task run by temp_bg_tasks().
RECURSIVE CourseSlides(_, _, _, _, _, _, _)
CourseSlides(cdb, tdb, wk, w, i, n, fail) ==
    LET id == wk.task_id
        task == First(cdb, id)
        cdb1 == Assign(cdb, id,
                       [progress |-> Frac(1, 10) + (Frac(8, 10) * (i + 1)) \div n,
                        slides_processed |-> i + 1, updated_at |-> now])
        tts_task_id == TtsId(now, task.voice_id)
        tdb1 == Append(tdb, TTSTaskDB(tts_task_id, SegmentText(w, i), task.voice_id))
        tdb2 == ProcessTtsTask(tdb1, tts_task_id, fail # "tts_save")
    IN IF i >= n THEN CourseFinish(cdb, tdb, wk, n, fail)
       ELSE IF fail = "save_progress" THEN CourseFail(cdb1, tdb, wk, Err("io"))
       ELSE IF task.voice_id \notin VOICE_SAMPLES_DB
       THEN CourseSlides(cdb1, tdb, wk, w, i + 1, n, fail)
       ELSE IF fail = "save_tts"
       THEN CourseSlides(cdb1, tdb1, wk, w, i + 1, n, fail)
       ELSE Out(cdb1, tdb2,
                [wk EXCEPT !.pc = "poll", !.i = i, !.n = n, !.sub = tts_task_id])

\* process_courseware_task from its start to the first asyncio.sleep.
\* early names a statement before the loop that raises: "save1" (line 380),
\* "save_name" (line 397)
CourseStart(w) ==
    /\ w \in DOMAIN workers
    /\ workers[w].kind = "course" /\ workers[w].pc = "start"
    /\ HasId(COURSEWARE_TASKS_DB, workers[w].task_id)
    /\ \E early \in {"none", "save1", "save_name"}, fail \in CourseFails :
         LET wk == workers[w]
             id == wk.task_id
             task == First(COURSEWARE_TASKS_DB, id)
             cdb1 == Assign(COURSEWARE_TASKS_DB, id,
                            [status |-> "processing", progress |-> Frac(1, 10),
                             updated_at |-> now])
             out ==
               IF ~HasCourseware(task.file_id)
               THEN CourseFail(COURSEWARE_TASKS_DB, TTS_TASKS_DB, wk,
                               Err("courseware_not_found"))
               ELSE IF early # "none"
               THEN CourseFail(cdb1, TTS_TASKS_DB, wk, Err("io"))
               ELSE CourseSlides(cdb1, TTS_TASKS_DB, wk, w, 0,
                                 FirstCourseware(task.file_id).slides, fail)
         IN /\ COURSEWARE_TASKS_DB' = out.rdb
            /\ TTS_TASKS_DB' = out.tdb
            /\ workers' = [workers EXCEPT ![w] = out.wk]
    /\ UNCHANGED <<now, calls, resp, MEDIA_FILES_DB, VOICE_SAMPLES_DB,
                   TRANSCRIPTION_TASKS_DB, ASR_TASKS_DB, REPLACE_TASKS_DB,
                   TRANSCRIPTION_TASKS_FILE, COURSEWARE_DB, engineVars>>

\* process_courseware_task resumed from asyncio.sleep(1) or from an
\* asyncio.sleep(0.5) of the polling loop (lines 460-464) and run to the
\* next sleep or to its return.  A failed sub-task is only printed (line
\* 482); a completed one whose file exists raises at tts_result.file_path
\* (TTSTaskStatus has no such field), which line 483 catches as well: in
\* every case the loop goes on with the next slide.
CoursePoll(w) ==
    /\ w \in DOMAIN workers
    /\ workers[w].kind = "course" /\ workers[w].pc = "poll"
    /\ \E fail \in CourseFails :
         LET wk == workers[w]
             tts_status == TtsStatus(TTS_TASKS_DB, wk.sub)
             out ==
               IF tts_status \notin Terminal
               THEN Out(COURSEWARE_TASKS_DB, TTS_TASKS_DB, wk)
               ELSE CourseSlides(COURSEWARE_TASKS_DB, TTS_TASKS_DB, wk, w,
                                 wk.i + 1, wk.n, fail)
         IN /\ COURSEWARE_TASKS_DB' = out.rdb
            /\ TTS_TASKS_DB' = out.tdb
            /\ workers' = [workers EXCEPT ![w] = out.wk]
    /\ UNCHANGED <<now, calls, resp, MEDIA_FILES_DB, VOICE_SAMPLES_DB,
                   TRANSCRIPTION_TASKS_DB, ASR_TASKS_DB, REPLACE_TASKS_DB,
                   TRANSCRIPTION_TASKS_FILE, COURSEWARE_DB, engineVars>>

\* the courseware endpoints (api/endpoints/course.py) with the voice
\* samples they refer to
CourseNext ==
    \/ Tick
    \/ ProcessVoiceSample
    \/ UploadCourseware
    \/ GenerateVoicedCourseware
    \/ \E w \in DOMAIN workers : CourseStart(w)
    \/ \E w \in DOMAIN workers : CoursePoll(w)

CourseSpec == Init /\ [][CourseNext]_vars

\* ------------------------------------------------- the services restarted
\* what init_replace_service and init_voice_service load when the process
\* starts on the files of an earlier run that uploaded one readable audio,
\* completed its transcription at second 0 and registered the voice samples
RestoredFiles(audio) ==
    <<[MediaFileDB(MediaId(0, 1), audio) EXCEPT !.duration = audio.dur]>>
RestoredTasks(audio) ==
    LET file_id == MediaId(0, 1)
        transcription == GenerateRealisticTranscription(audio.dur, LoadSegments(audio))
    IN <<[f \in DOMAIN TranscriptionTaskDB(NoId, file_id) |->
            IF f \in {"status", "progress", "transcription"}
            THEN TransCompleteFields(transcription)[f]
            ELSE IF f = "updated_at" THEN 0
            ELSE TranscriptionTaskDB(TranscribeId(0, file_id), file_id)[f]]>>

\* the process starts on an empty upload directory (Init) or on the files
\* the earlier run left, in the second that run ended or later
Restored ==
    /\ now \in 0..MaxTime
    /\ calls = 0
    /\ resp = NoResp
    /\ \E audio \in {a \in Audios : a.readable /\ a.dur > ShortDur} :
         /\ MEDIA_FILES_DB = RestoredFiles(audio)
         /\ TRANSCRIPTION_TASKS_DB = RestoredTasks(audio)
         /\ TRANSCRIPTION_TASKS_FILE = RestoredTasks(audio)
    /\ VOICE_SAMPLES_DB = VoiceIds
    /\ ASR_TASKS_DB = <<>>
    /\ REPLACE_TASKS_DB = <<>>
    /\ TTS_TASKS_DB = <<>>
    /\ COURSEWARE_DB = <<>>
    /\ COURSEWARE_TASKS_DB = <<>>
    /\ workers = <<>>
    /\ detect = Idle
    /\ stitch = Idle
    /\ adapt = Idle
    /\ similar = Idle
    /\ voice = Idle
RestartInit == Init \/ Restored

RestartSpec == RestartInit /\ [][Next]_vars

\* ------------------------------------------- voice samples being deleted
\* The services with delete_voice_sample among the calls, started on the
\* restored files.  Sample ids are uuid4 strings: an id that was deleted is
\* not registered again.  The media file of the earlier run is the only one.
DeleteNext ==
    \/ Tick
    \/ DeleteVoiceSample
    \/ TranscribeMedia
    \/ \E w \in DOMAIN workers : TransDetect(w)
    \/ \E w \in DOMAIN workers : TransGenerate(w)
    \/ \E w \in DOMAIN workers : TransComplete(w)
    \/ AsrTranscribeMedia
    \/ \E w \in DOMAIN workers : AsrProcess(w)
    \/ SynthesizeSpeech
    \/ \E w \in DOMAIN workers : TtsRun(w)
    \/ ReplaceVoice
    \/ \E w \in DOMAIN workers : ReplaceStart(w)
    \/ \E w \in DOMAIN workers : ReplacePoll(w)

DeleteSpec == Restored /\ [][DeleteNext]_vars

\* ------------------------------------------------------ unknown references
\* the registry in which the worker of each kind looks its task up
Registry(kind) ==
    CASE kind = "transcribe" -> TRANSCRIPTION_TASKS_DB
      [] kind = "asr" -> ASR_TASKS_DB
      [] kind = "tts" -> TTS_TASKS_DB
      [] kind = "replace" -> REPLACE_TASKS_DB
      [] kind = "course" -> COURSEWARE_TASKS_DB
WorkerKinds == {"transcribe", "asr", "tts", "replace", "course"}

\* task ids of the kind's format, of the current second
TaskIdInputs(kind) ==
    CASE kind \in {"transcribe", "asr"} ->
           {TranscribeId(now, f) : f \in FileIdInputs}
      [] kind = "tts" -> {TtsId(now, v) : v \in VoiceIds}
      [] kind = "replace" ->
           {ReplaceId(now, TranscribeId(now, f)) : f \in FileIdInputs}
      [] kind = "course" -> {CourseTaskId(now, f) : f \in FileIdInputs}

\* process_transcription_task (replace_service or paddlespeech_asr),
\* process_tts_task, process_replace_task or process_courseware_task started
\* with a task id
\* that no record of its registry carries.  No caller in the repository does
\* this (every add_task follows the append of the record); it is the direct
\* call of the worker function.
StartWorker ==
    /\ CanCall
    /\ calls' = calls + 1
    /\ \E kind \in WorkerKinds :
         \E id \in {x \in TaskIdInputs(kind) : ~HasId(Registry(kind), x)} :
           /\ workers' = Append(workers, Worker(kind, id))
           /\ resp' = Resp("start_worker", NoId, "ok", id)
    /\ UNCHANGED <<now, MEDIA_FILES_DB, VOICE_SAMPLES_DB,
                   TRANSCRIPTION_TASKS_DB, ASR_TASKS_DB, REPLACE_TASKS_DB,
                   TTS_TASKS_DB, TRANSCRIPTION_TASKS_FILE, courseVars,
                   engineVars>>

\* the lookup at the head of a worker finds no task: it prints and returns
\* (replace_service lines 278-280 and 501-503, course_service lines 357-359,
\* paddlespeech_asr lines 331-334; process_tts_task is ProcessTtsTask)
TaskNotFound(w) ==
    /\ w \in DOMAIN workers
    /\ workers[w].kind \in WorkerKinds \ {"tts"}
    /\ workers[w].pc = "start"
    /\ ~HasId(Registry(workers[w].kind), workers[w].task_id)
    /\ workers' = [workers EXCEPT ![w].pc = "done"]
    /\ UNCHANGED <<now, calls, resp, MEDIA_FILES_DB, VOICE_SAMPLES_DB,
                   TRANSCRIPTION_TASKS_DB, ASR_TASKS_DB, REPLACE_TASKS_DB,
                   TTS_TASKS_DB, TRANSCRIPTION_TASKS_FILE, courseVars,
                   engineVars>>

\* the intake of every service, the transcription worker and every other
\* worker up to its first asyncio.sleep, within one second
UnknownNext ==
    \/ UploadMedia
    \/ ProcessVoiceSample
    \/ UploadCourseware
    \/ TranscribeMedia
    \/ AsrTranscribeMedia
    \/ SynthesizeSpeech
    \/ ReplaceVoice
    \/ GenerateVoicedCourseware
    \/ StartWorker
    \/ \E w \in DOMAIN workers : TransDetect(w)
    \/ \E w \in DOMAIN workers : TransGenerate(w)
    \/ \E w \in DOMAIN workers : TransComplete(w)
    \/ \E w \in DOMAIN workers : AsrProcess(w)
    \/ \E w \in DOMAIN workers : TtsRun(w)
    \/ \E w \in DOMAIN workers : CourseStart(w)
    \/ \E w \in DOMAIN workers : TaskNotFound(w)

UnknownSpec == Init /\ [][UnknownNext]_vars

\* ---------------------------------- replace_service.detect_speech_segments
\* sample rates of the audio: at 100 Hz a hop is 10 ms and max_duration is a
\* whole number of hops (as at 16000 or 44100 Hz with 10 s); at 250 Hz
\* int(0.010 * sr) truncates 2.5 to 2 samples, a hop is 8 ms and max_duration
\* is not a whole number of hops (as at 11025 or 22050 Hz)
SampleRates == {100, 250}
\* values of a frame's RMS energy
EnergyLevels == {0, 1, 400}

\* hop_length = int(0.010 * sr), in samples
HopLength(sr) == sr \div 100
\* times[j] - times[i] >= ms / 1000 for frames = j - i, where
\* times[k] = k * hop_length / sr (librosa.times_like)
AtLeast(frames, sr, ms) == frames * HopLength(sr) * 1000 >= ms * sr

RECURSIVE SumSeq(_)
SumSeq(q) == IF q = <<>> THEN 0 ELSE Head(q) + SumSeq(Tail(q))
\* energy > adaptive_threshold, with adaptive_threshold = 0.01 * np.mean(rms);
\* i is the 0-based frame index
AboveThreshold(rms, i) == rms[i + 1] * 100 * Len(rms) > SumSeq(rms)

\* current_time - speech_start >= max_duration never holds
ForcedSplit_Never(frames, sr) == FALSE
\* current_time - speech_start >= max_duration
ForcedSplit(frames, sr) == AtLeast(frames, sr, MaxDurationMs)
\* current_time - speech_start >= min_duration
LongEnough(frames, sr) == AtLeast(frames, sr, MinDurationMs)

\* the locals of detect_speech_segments before the loop; times are kept as
\* frame indices (times[k] is k hops)
DetectInit ==
    /\ now = 0
    /\ calls = 0
    /\ resp = NoResp
    /\ MEDIA_FILES_DB = <<>>
    /\ VOICE_SAMPLES_DB = {}
    /\ TRANSCRIPTION_TASKS_DB = <<>>
    /\ ASR_TASKS_DB = <<>>
    /\ REPLACE_TASKS_DB = <<>>
    /\ TTS_TASKS_DB = <<>>
    /\ TRANSCRIPTION_TASKS_FILE = <<>>
    /\ COURSEWARE_DB = <<>>
    /\ COURSEWARE_TASKS_DB = <<>>
    /\ workers = <<>>
    /\ detect \in {[pc |-> "loop", sr |-> sr, rms |-> rms, i |-> 0,
                    in_speech |-> FALSE, speech_start |-> 0,
                    segments |-> <<>>] :
                      sr \in SampleRates,
                      rms \in [1..MaxFrames -> EnergyLevels]}
    /\ stitch = Idle
    /\ adapt = Idle
    /\ similar = Idle
    /\ voice = Idle

\* one iteration of "for i, energy in enumerate(rms)"
DetectFrame ==
    /\ detect.pc = "loop"
    /\ detect.i < Len(detect.rms)
    /\ LET i == detect.i
           above == AboveThreshold(detect.rms, i)
           run == i - detect.speech_start
       IN detect' =
            IF ~detect.in_speech /\ above
            THEN [detect EXCEPT !.in_speech = TRUE, !.speech_start = i,
                                !.i = i + 1]
            ELSE IF detect.in_speech /\ (~above \/ ForcedSplit(run, detect.sr))
            THEN [detect EXCEPT
                    !.segments = IF LongEnough(run, detect.sr)
                                 THEN Append(@, Segment(detect.speech_start, i))
                                 ELSE @,
                    !.in_speech = FALSE,
                    !.i = i + 1]
            ELSE [detect EXCEPT !.i = i + 1]
    /\ UNCHANGED <<appVars, stitch, adapt, similar, voice>>

\* after the loop: the run that is still open at the last frame
DetectLast ==
    /\ detect.pc = "loop"
    /\ detect.i = Len(detect.rms)
    /\ LET last == Len(detect.rms) - 1 IN
       detect' =
         [detect EXCEPT
            !.pc = "done",
            !.segments =
               IF detect.in_speech
                  /\ LongEnough(last - detect.speech_start, detect.sr)
               THEN Append(@, Segment(detect.speech_start, last))
               ELSE @]
    /\ UNCHANGED <<appVars, stitch, adapt, similar, voice>>

DetectNext ==
    \/ DetectFrame
    \/ DetectLast

DetectSpec == DetectInit /\ [][DetectNext]_vars


\* --------------------- replace_service.process_replace_task, lines 660-706
\* the block that creates the output file, on the list tts_results of a
\* task whose segments were all synthesized, for a video (is_video) or an
\* audio file.  Lines 617-624 append one entry per segment inside the
\* sequential loop, so entry j is segment j - 1 of the transcript; start is
\* the segment's start as the transcript stores it.  The audio file of an
\* entry is what librosa.load(audio_file, sr=None) returns: its native rate
\* and its samples (here a count), or nothing when the file no longer exists.
SegmentStarts == {0, 1}
AudioRates == {16000, 22050, 44100}
\* one tenth of a millisecond of audio at the given rate
SamplesAt(rate) == rate \div 7350
TtsResult(segment_id, start, rate, exists) ==
    [segment_id |-> segment_id, start |-> start,
     audio_file |-> [exists |-> exists, sr |-> rate, samples |-> SamplesAt(rate)]]
TtsResultLists ==
    UNION {{[j \in 1..n |-> TtsResult(j - 1, st[j], sr[j], ex[j])] :
              st \in [1..n -> SegmentStarts],
              sr \in [1..n -> AudioRates],
              ex \in [1..n -> BOOLEAN]} : n \in 1..MaxParts}

\* sorted(tts_results, key=lambda x: x["start"]) leaves the list as recorded
SortedByStart_AsRecorded(results) == results
\* sorted(tts_results, key=lambda x: x["start"]): Python's sort is stable, as
\* is this insertion of each entry after the entries that do not start later
RECURSIVE InsertByStart(_, _)
InsertByStart(sorted, x) ==
    IF sorted = <<>> THEN <<x>>
    ELSE IF Head(sorted).start <= x.start
    THEN <<Head(sorted)>> \o InsertByStart(Tail(sorted), x)
    ELSE <<x>> \o sorted
RECURSIVE SortedByStart(_)
SortedByStart(results) ==
    IF results = <<>> THEN <<>>
    ELSE InsertByStart(SortedByStart(SubSeq(results, 1, Len(results) - 1)),
                       results[Len(results)])

\* librosa.resample leaves the audio as loaded
Resample_None(y, orig_sr, target_sr) == y
\* librosa.resample(y, orig_sr=sr, target_sr=sample_rate): the audio at the
\* target rate, ceil(len(y) * target_sr / orig_sr) samples long
Resample(y, orig_sr, target_sr) ==
    [y EXCEPT !.sr = target_sr,
              !.samples = (@ * target_sr + orig_sr - 1) \div orig_sr]

StitchInit ==
    /\ now = 0
    /\ calls = 0
    /\ resp = NoResp
    /\ MEDIA_FILES_DB = <<>>
    /\ VOICE_SAMPLES_DB = {}
    /\ TRANSCRIPTION_TASKS_DB = <<>>
    /\ ASR_TASKS_DB = <<>>
    /\ REPLACE_TASKS_DB = <<>>
    /\ TTS_TASKS_DB = <<>>
    /\ TRANSCRIPTION_TASKS_FILE = <<>>
    /\ COURSEWARE_DB = <<>>
    /\ COURSEWARE_TASKS_DB = <<>>
    /\ workers = <<>>
    /\ detect = Idle
    /\ stitch \in {[pc |-> "sort", is_video |-> is_video,
                    tts_results |-> results,
                    sorted_results |-> <<>>, k |-> 1,
                    combined_audio |-> <<>>, sample_rate |-> 0,
                    output |-> [kind |-> "none"]] :
                      results \in TtsResultLists, is_video \in BOOLEAN}
    /\ adapt = Idle
    /\ similar = Idle
    /\ voice = Idle

\* lines 661-664: for a video the output file is a copy of the original
CopyVideo ==
    /\ stitch.pc = "sort"
    /\ stitch.is_video
    /\ stitch' = [stitch EXCEPT !.pc = "done", !.output = [kind |-> "original"]]
    /\ UNCHANGED <<appVars, detect, adapt, similar, voice>>

\* lines 672-676: combined_audio = [], sample_rate = None, sorted_results
StitchSort ==
    /\ stitch.pc = "sort"
    /\ ~stitch.is_video
    /\ stitch' = [stitch EXCEPT
                    !.pc = "load",
                    !.sorted_results = SortedByStart(stitch.tts_results)]
    /\ UNCHANGED <<appVars, detect, adapt, similar, voice>>

\* lines 679-692: one iteration of "for result in sorted_results"; each
\* element of combined_audio keeps the segment it comes from
StitchLoad ==
    /\ stitch.pc = "load"
    /\ stitch.k <= Len(stitch.sorted_results)
    /\ LET result == stitch.sorted_results[stitch.k]
           file == result.audio_file
           y == [segment_id |-> result.segment_id, sr |-> file.sr,
                 samples |-> file.samples]
       IN stitch' =
            IF ~file.exists
            THEN [stitch EXCEPT !.k = @ + 1]
            ELSE IF stitch.sample_rate = 0
            THEN [stitch EXCEPT !.k = @ + 1, !.sample_rate = file.sr,
                                !.combined_audio = Append(@, y)]
            ELSE IF file.sr # stitch.sample_rate
            THEN [stitch EXCEPT
                    !.k = @ + 1,
                    !.combined_audio =
                       Append(@, Resample(y, file.sr, stitch.sample_rate))]
            ELSE [stitch EXCEPT !.k = @ + 1, !.combined_audio = Append(@, y)]
    /\ UNCHANGED <<appVars, detect, adapt, similar, voice>>

\* lines 694-702: np.concatenate and sf.write at sample_rate, or the copy
\* of the original file when nothing was loaded
StitchWrite ==
    /\ stitch.pc = "load"
    /\ stitch.k > Len(stitch.sorted_results)
    /\ stitch' =
         [stitch EXCEPT
            !.pc = "done",
            !.output =
               IF stitch.combined_audio # <<>> /\ stitch.sample_rate # 0
               THEN [kind |-> "stitched", sr |-> stitch.sample_rate,
                     audio |-> stitch.combined_audio]
               ELSE [kind |-> "original"]]
    /\ UNCHANGED <<appVars, detect, adapt, similar, voice>>

StitchNext ==
    \/ CopyVideo
    \/ StitchSort
    \/ StitchLoad
    \/ StitchWrite

StitchSpec == StitchInit /\ [][StitchNext]_vars

\* ------------------------- voice_clone.VoiceCloner.adapt_tts_params, called
\* embeddings shorter than the four slots read, hand-engineered ones, and
\* ones long enough to count as neural
EmbeddingLengths == {3, 4, 51}
PitchMeans == {0, 120, 250}
EnergyMeans == {-5, 5, 50}
Embeddings ==
    {[j \in 1..n |-> IF j = 1 THEN pm ELSE IF j = 3 THEN em ELSE 0] :
        n \in EmbeddingLengths, pm \in PitchMeans, em \in EnergyMeans}
\* base params with and without the keys pitch and energy
BaseParams ==
    UNION {{[k \in keys \cup {"speed"} |->
                IF k = "pitch" THEN pitch
                ELSE IF k = "energy" THEN energy ELSE 1000] :
              pitch \in {-1000, 0, 900}, energy \in {500, 1000, 2000}} :
           keys \in SUBSET {"pitch", "energy"}}

AdaptInit ==
    /\ now = 0
    /\ calls = 0
    /\ resp = NoResp
    /\ MEDIA_FILES_DB = <<>>
    /\ VOICE_SAMPLES_DB = {}
    /\ TRANSCRIPTION_TASKS_DB = <<>>
    /\ ASR_TASKS_DB = <<>>
    /\ REPLACE_TASKS_DB = <<>>
    /\ TTS_TASKS_DB = <<>>
    /\ TRANSCRIPTION_TASKS_FILE = <<>>
    /\ COURSEWARE_DB = <<>>
    /\ COURSEWARE_TASKS_DB = <<>>
    /\ workers = <<>>
    /\ detect = Idle
    /\ stitch = Idle
    /\ adapt \in {[pc |-> "call", embedding |-> embedding,
                   submitted |-> base_params, base_params |-> base_params,
                   params |-> [object |-> "none", content |-> <<>>]] :
                     embedding \in Embeddings, base_params \in BaseParams}
    /\ similar = Idle
    /\ voice = Idle

\* line 294
AdaptCopy ==
    /\ adapt.pc = "call"
    /\ adapt' = [adapt EXCEPT !.pc = "adjust",
                              !.params = DictCopy(adapt.base_params)]
    /\ UNCHANGED <<appVars, detect, stitch, similar, voice>>

\* lines 297-331: the writes go to the dict params refers to
AdaptAdjust ==
    /\ adapt.pc = "adjust"
    /\ LET written == AdaptWrites(adapt.embedding, adapt.params.content) IN
       adapt' = [adapt EXCEPT
                   !.pc = "returned",
                   !.params.content = written,
                   !.base_params = IF adapt.params.object = "base_params"
                                   THEN written ELSE @]
    /\ UNCHANGED <<appVars, detect, stitch, similar, voice>>

AdaptNext ==
    \/ AdaptCopy
    \/ AdaptAdjust

AdaptSpec == AdaptInit /\ [][AdaptNext]_vars

\* ------------------- the voice_embeddings directory: voice_service.py and
\* voice_clone.VoiceCloner
\* Embedding vectors are sequences of small integers.  The features file of
\* a sample is the dict written for it: voice_service.save_voice_features
\* writes what analyze_voice_sample returns, whose vector is the item
\* mfcc_fingerprint; VoiceCloner.process_voice_sample writes what
\* VoiceEncoder.extract_features returns, with an embedding_type.  A
\* hand-engineered vector is stored as its scalar slots (one here, seven in
\* the source) and its mfcc_means.
Vectors == {<<0, 0>>, <<1, 0>>, <<2, 0>>, <<1, 1, 3>>}
None == [none |-> TRUE]

AnalysedFeatures(v) == [mfcc_fingerprint |-> v]
NeuralFeatures(v) == [embedding_type |-> "neural", embedding |-> v]
TraditionalFeatures(v) ==
    [embedding_type |-> "traditional", pitch_mean |-> Head(v), mfcc_means |-> Tail(v)]

\* VoiceCloner.load_voice_embedding on the content of a features file
LoadVoiceEmbedding(features) ==
    IF Get(features, "embedding_type", "") = "neural" /\ "embedding" \in DOMAIN features
    THEN features["embedding"]
    ELSE IF Get(features, "embedding_type", "") = "traditional"
    THEN <<Get(features, "pitch_mean", 0)>> \o Get(features, "mfcc_means", <<0>>)
    ELSE IF "mfcc_fingerprint" \in DOMAIN features
    THEN features["mfcc_fingerprint"]
    ELSE None

RECURSIVE Dot(_, _)
Dot(a, b) == IF a = <<>> THEN 0 ELSE Head(a) * Head(b) + Dot(Tail(a), Tail(b))
\* dot_product / (norm1 * norm2) of two vectors of one length, kept exact as
\* the dot product and the product of the squared norms; the value returned
\* is (cosine + 1) / 2.  Floating-point rounding is not modelled.
Cosine(a, b) == [dot |-> Dot(a, b), nn |-> Dot(a, a) * Dot(b, b)]
\* s is a larger similarity than t
Higher(s, t) ==
    IF s.dot >= 0 /\ t.dot >= 0 THEN s.dot * s.dot * t.nn > t.dot * t.dot * s.nn
    ELSE IF s.dot < 0 /\ t.dot < 0 THEN s.dot * s.dot * t.nn < t.dot * t.dot * s.nn
    ELSE s.dot >= 0
\* the similarity is exactly 1.0
IsOne(s) == s.dot > 0 /\ s.dot * s.dot = s.nn

\* find_similar_voices, lines 252-276: the entry for one features file, or
\* nothing when it has no embedding or a norm is 0
Similarities(embedding, file) ==
    LET sample_embedding == LoadVoiceEmbedding(file.features) IN
    IF sample_embedding = None THEN <<>>
    ELSE LET min_dim == IF Len(embedding) <= Len(sample_embedding)
                        THEN Len(embedding) ELSE Len(sample_embedding)
             emb1 == SubSeq(embedding, 1, min_dim)
             emb2 == SubSeq(sample_embedding, 1, min_dim)
         IN IF Dot(emb1, emb1) > 0 /\ Dot(emb2, emb2) > 0
            THEN <<[sample_id |-> file.sample_id, similarity |-> Cosine(emb1, emb2)]>>
            ELSE <<>>

\* similarities.sort(key=..., reverse=True): stable, equal similarities keep
\* the order they were appended in
RECURSIVE InsertBySimilarity(_, _)
InsertBySimilarity(sorted, x) ==
    IF sorted = <<>> THEN <<x>>
    ELSE IF Higher(x.similarity, Head(sorted).similarity)
    THEN <<x>> \o sorted
    ELSE <<Head(sorted)>> \o InsertBySimilarity(Tail(sorted), x)
RECURSIVE SortBySimilarity(_)
SortBySimilarity(sims) ==
    IF sims = <<>> THEN <<>>
    ELSE InsertBySimilarity(SortBySimilarity(SubSeq(sims, 1, Len(sims) - 1)),
                            sims[Len(sims)])

\* VoiceCloner.find_similar_voices; listing is the order in which
\* Path.glob yields the features files
RECURSIVE Scan(_, _, _)
Scan(embedding, files, listing) ==
    IF listing = <<>> THEN <<>>
    ELSE Similarities(embedding, files[Head(listing)])
         \o Scan(embedding, files, Tail(listing))
FindSimilarVoices(embedding, top_n, files, listing) ==
    LET sorted == SortBySimilarity(Scan(embedding, files, listing))
    IN SubSeq(sorted, 1, IF top_n <= Len(sorted) THEN top_n ELSE Len(sorted))

\* voice_service.compare_voice_samples: the loop of lines 309-313 assigns a
\* sample to sample1 or else to sample2
CompareVoiceSamples(sample_id1, sample_id2, files) ==
    LET Is1(j) == files[j].sample_id = sample_id1
        Is2(j) == ~Is1(j) /\ files[j].sample_id = sample_id2
    IN IF ~(\E j \in DOMAIN files : Is1(j)) \/ ~(\E j \in DOMAIN files : Is2(j))
       THEN "ValueError"
       ELSE LET mfcc1 == Get(files[CHOOSE j \in DOMAIN files : Is1(j)].features,
                             "mfcc_fingerprint", <<>>)
                mfcc2 == Get(files[CHOOSE j \in DOMAIN files : Is2(j)].features,
                             "mfcc_fingerprint", <<>>)
            IN IF Len(mfcc1) = 0 \/ Len(mfcc2) = 0 THEN "ValueError"
               ELSE IF Len(mfcc1) # Len(mfcc2) THEN "ValueError"
               ELSE IF Dot(mfcc1, mfcc1) = 0 \/ Dot(mfcc2, mfcc2) = 0 THEN "0.0"
               ELSE Cosine(mfcc1, mfcc2)

RECURSIVE Perms(_)
Perms(S) ==
    IF S = {} THEN {<<>>}
    ELSE UNION {{<<x>> \o p : p \in Perms(S \ {x})} : x \in S}

NoCall == [op |-> "none"]

SimilarInit ==
    /\ now = 0
    /\ calls = 0
    /\ resp = NoResp
    /\ MEDIA_FILES_DB = <<>>
    /\ VOICE_SAMPLES_DB = {}
    /\ TRANSCRIPTION_TASKS_DB = <<>>
    /\ ASR_TASKS_DB = <<>>
    /\ REPLACE_TASKS_DB = <<>>
    /\ TTS_TASKS_DB = <<>>
    /\ TRANSCRIPTION_TASKS_FILE = <<>>
    /\ COURSEWARE_DB = <<>>
    /\ COURSEWARE_TASKS_DB = <<>>
    /\ workers = <<>>
    /\ detect = Idle
    /\ stitch = Idle
    /\ adapt = Idle
    /\ similar = [files |-> <<>>, last |-> NoCall]
    /\ voice = Idle

\* voice_service.process_voice_sample on a new sample whose analysis
\* succeeds: save_voice_features writes <sample_id>_features.json
SaveVoiceFeatures ==
    /\ Len(similar.files) < MaxProfiles
    /\ \E v \in Vectors :
         similar' = [files |-> Append(similar.files,
                                      [sample_id |-> Len(similar.files) + 1,
                                       features |-> AnalysedFeatures(v)]),
                     last |-> NoCall]
    /\ UNCHANGED <<appVars, detect, stitch, adapt, voice>>

\* VoiceCloner.process_voice_sample on a new sample id, with or without
\* the encoder model
ClonerProcessVoiceSample ==
    /\ Len(similar.files) < MaxProfiles
    /\ \E v \in Vectors, neural \in BOOLEAN :
         similar' = [files |-> Append(similar.files,
                                      [sample_id |-> Len(similar.files) + 1,
                                       features |-> IF neural THEN NeuralFeatures(v)
                                                    ELSE TraditionalFeatures(v)]),
                     last |-> NoCall]
    /\ UNCHANGED <<appVars, detect, stitch, adapt, voice>>

\* a call of VoiceCloner.find_similar_voices
FindSimilar ==
    /\ \E embedding \in Vectors, top_n \in {1, MaxProfiles},
          listing \in Perms(DOMAIN similar.files) :
         similar' = [similar EXCEPT !.last =
            [op |-> "find_similar_voices", embedding |-> embedding,
             top_n |-> top_n,
             out |-> FindSimilarVoices(embedding, top_n, similar.files, listing)]]
    /\ UNCHANGED <<appVars, detect, stitch, adapt, voice>>

\* a call of voice_service.compare_voice_samples
Compare ==
    /\ \E sample_id1, sample_id2 \in 1..MaxProfiles :
         similar' = [similar EXCEPT !.last =
            [op |-> "compare_voice_samples", sample_id1 |-> sample_id1,
             sample_id2 |-> sample_id2,
             out |-> CompareVoiceSamples(sample_id1, sample_id2, similar.files)]]
    /\ UNCHANGED <<appVars, detect, stitch, adapt, voice>>

SimilarNext ==
    \/ SaveVoiceFeatures
    \/ ClonerProcessVoiceSample
    \/ FindSimilar
    \/ Compare

SimilarSpec == SimilarInit /\ [][SimilarNext]_vars

\* ------------------------------------------------- voice_service samples
\* voice.samples is VOICE_SAMPLES_DB with whole records, voice.queue the
\* background tasks the upload endpoint has added, voice.audio,
\* voice.embeddings and voice.models the files under UPLOAD_DIR (the
\* recordings, voice_embeddings/<id>_features.json with its content,
\* voice_models/<id>.wav), voice.last the result of the latest
\* delete_voice_sample.  Durations are in 1/TU seconds, quality scores in
\* thousandths.
MinSampleSec == 5
MaxSampleSec == 30

\* recordings a client uploads: what librosa.load and analyze_voice_sample
\* make of them
SampleAudio(readable, dur, fingerprint, score) ==
    [readable |-> readable, dur |-> dur, fingerprint |-> fingerprint,
     score |-> score]
SampleAudios ==
    {SampleAudio(FALSE, 0, <<>>, 0)}
    \cup {SampleAudio(TRUE, d, <<1, 0>>, 0) :
            d \in {MinSampleSec * TU - 1, MinSampleSec * TU,
                   MaxSampleSec * TU + 1}}
    \cup {SampleAudio(TRUE, MaxSampleSec * TU, <<2, 0>>, 950)}

\* a value of an Optional field that is not None
Some(x) == [value |-> x]
\* VoiceSampleCreate as the upload endpoint builds it
VoiceSampleCreate(id, audio) == [id |-> id, audio |-> audio]
\* VoiceSampleDB(**sample.dict(), status="processing"); obj tells the
\* objects constructed for one id apart
VoiceSampleDB(sample, obj) ==
    [id |-> sample.id, obj |-> obj, audio |-> sample.audio,
     status |-> "processing", quality_score |-> None,
     embedding_path |-> None, model_path |-> None, error |-> None]

HasSample(db, id) == \E j \in DOMAIN db : db[j].id = id
SampleIdx(db, id) == CHOOSE j \in DOMAIN db : db[j].id = id
\* lines 140-145: the record replaces the one with its id, or is appended
PutSample(db, rec) ==
    IF HasSample(db, rec.id)
    THEN [db EXCEPT ![SampleIdx(db, rec.id)] = rec]
    ELSE Append(db, rec)
\* the loops of lines 188-195 and 203-208
AssignSample(db, id, fields) ==
    IF HasSample(db, id)
    THEN [db EXCEPT ![SampleIdx(db, id)] =
            [k \in DOMAIN @ |-> IF k \in DOMAIN fields THEN fields[k] ELSE @[k]]]
    ELSE db
FailSample(db, id, e) ==
    AssignSample(db, id, [status |-> "failed", error |-> Err(e)])

WriteFile(files, id, content) ==
    [k \in DOMAIN files \cup {id} |-> IF k = id THEN content ELSE files[k]]
RemoveFile(files, id) == [k \in DOMAIN files \ {id} |-> files[k]]

SampleTooShort_Never(dur) == FALSE
\* the checks of lines 162 and 164
SampleTooShort(dur) == dur < MinSampleSec * TU
SampleTooLong(dur) == dur > MaxSampleSec * TU

VoiceFails == {"none", "save_processing", "features", "model", "save_ready"}

\* voice_service.process_voice_sample, the whole handler (it has no
\* asyncio.sleep).  fail names the statement that raises: the save of line
\* 148 (outside the try: the exception escapes), save_voice_features (line
\* 177), sf.write (line 185), the save of line 198.
ProcessVoiceSampleRun(v, sample, fail) ==
    LET id == sample.id
        audio == sample.audio
        db1 == PutSample(v.samples, VoiceSampleDB(sample, v.made + 1))
        v1 == [v EXCEPT !.samples = db1, !.made = v.made + 1]
        Failed(st, e) == [st EXCEPT !.samples = FailSample(st.samples, id, e)]
        v2 == [v1 EXCEPT !.embeddings =
                  WriteFile(v.embeddings, id, AnalysedFeatures(audio.fingerprint))]
        v3 == [v2 EXCEPT !.models = v.models \cup {id}]
        v4 == [v3 EXCEPT !.samples =
                  AssignSample(db1, id, [status |-> "ready",
                                         quality_score |-> Some(audio.score),
                                         embedding_path |-> Some(id),
                                         model_path |-> Some(id)])]
    IN IF fail = "save_processing" THEN v1
       ELSE IF ~audio.readable THEN Failed(v1, "load")
       ELSE IF SampleTooShort(audio.dur) THEN Failed(v1, "too_short")
       ELSE IF SampleTooLong(audio.dur) THEN Failed(v1, "too_long")
       ELSE IF fail = "features" THEN Failed(v1, "io")
       ELSE IF fail = "model" THEN Failed(v2, "io")
       ELSE IF fail = "save_ready" THEN Failed(v4, "io")
       ELSE v4

\* delete_voice_sample.  fail: "remove" (the first os.remove raises) or
\* "save" (save_voice_samples after the pop raises); both return None
DeleteVoiceSampleRun(v, sample_id, fail) ==
    IF ~HasSample(v.samples, sample_id) THEN [v EXCEPT !.last = None]
    ELSE LET i == SampleIdx(v.samples, sample_id)
             sample == v.samples[i]
             v1 == [v EXCEPT
                      !.audio = @ \ {sample_id},
                      !.embeddings = IF sample.embedding_path # None
                                     THEN RemoveFile(@, sample.embedding_path.value)
                                     ELSE @,
                      !.models = IF sample.model_path # None
                                 THEN @ \ {sample.model_path.value} ELSE @,
                      !.samples = SubSeq(@, 1, i - 1)
                                  \o SubSeq(@, i + 1, Len(@))]
         IN IF fail = "remove" THEN [v EXCEPT !.last = None]
            ELSE IF fail = "save" THEN [v1 EXCEPT !.last = None]
            ELSE [v1 EXCEPT !.last = [id |-> sample_id, status |-> "deleted"]]

VoiceInit ==
    /\ now = 0
    /\ calls = 0
    /\ resp = NoResp
    /\ MEDIA_FILES_DB = <<>>
    /\ VOICE_SAMPLES_DB = {}
    /\ TRANSCRIPTION_TASKS_DB = <<>>
    /\ ASR_TASKS_DB = <<>>
    /\ REPLACE_TASKS_DB = <<>>
    /\ TTS_TASKS_DB = <<>>
    /\ TRANSCRIPTION_TASKS_FILE = <<>>
    /\ COURSEWARE_DB = <<>>
    /\ COURSEWARE_TASKS_DB = <<>>
    /\ workers = <<>>
    /\ detect = Idle
    /\ stitch = Idle
    /\ adapt = Idle
    /\ similar = Idle
    /\ voice = [samples |-> <<>>, queue |-> {}, audio |-> {},
                embeddings |-> <<>>, models |-> {}, uploads |-> 0,
                made |-> 0, last |-> None]

\* the upload endpoint (api/endpoints/voice.py): the recording is stored,
\* the id is a fresh uuid4, process_voice_sample is added as background task
UploadVoiceSample ==
    /\ voice.uploads < MaxUploads
    /\ \E audio \in SampleAudios :
         LET sample_id == voice.uploads + 1 IN
         voice' = [voice EXCEPT
                     !.uploads = sample_id,
                     !.audio = @ \cup {sample_id},
                     !.queue = @ \cup {VoiceSampleCreate(sample_id, audio)}]
    /\ UNCHANGED <<appVars, detect, stitch, adapt, similar>>

\* the background task of an upload
ProcessUploaded ==
    /\ \E sample \in voice.queue, fail \in VoiceFails :
         voice' = [ProcessVoiceSampleRun(voice, sample, fail)
                     EXCEPT !.queue = @ \ {sample}]
    /\ UNCHANGED <<appVars, detect, stitch, adapt, similar>>

\* process_voice_sample called again for a sample that has a record
\* (lines 139-143 replace the record), as by
\* integration.process_voice_sample_with_metrics
Reprocess ==
    /\ voice.made < MaxSampleRuns
    /\ \E j \in DOMAIN voice.samples, audio \in SampleAudios, fail \in VoiceFails :
         voice' = ProcessVoiceSampleRun(
                      voice, VoiceSampleCreate(voice.samples[j].id, audio), fail)
    /\ UNCHANGED <<appVars, detect, stitch, adapt, similar>>

\* VoiceCloner.process_voice_sample(audio_path, sample_id) for a sample
\* that has a record, with or without the encoder model
ClonerReprocess ==
    /\ \E j \in DOMAIN voice.samples, audio \in SampleAudios, neural \in BOOLEAN :
         /\ audio.readable
         /\ voice' = [voice EXCEPT !.embeddings =
               WriteFile(@, voice.samples[j].id,
                         IF neural THEN NeuralFeatures(audio.fingerprint)
                         ELSE TraditionalFeatures(audio.fingerprint))]
    /\ UNCHANGED <<appVars, detect, stitch, adapt, similar>>

\* the delete endpoint
DeleteSample ==
    /\ \E sample_id \in 1..MaxUploads, fail \in {"none", "remove", "save"} :
         voice' = DeleteVoiceSampleRun(voice, sample_id, fail)
    /\ UNCHANGED <<appVars, detect, stitch, adapt, similar>>

VoiceNext ==
    \/ UploadVoiceSample
    \/ ProcessUploaded
    \/ Reprocess
    \/ ClonerReprocess
    \/ DeleteSample

VoiceSpec == VoiceInit /\ [][VoiceNext]_vars

\* ========================================================== properties
IsReplaceWorker(w) == w \in DOMAIN workers /\ workers[w].kind = "replace"
\* the TTS records created for background task w (its sub-tasks)
SubTasks(tdb, w) == {j \in DOMAIN tdb : tdb[j].text.w = w}

\* ---- C1
Frozen(db, dbp) ==
    \A j \in DOMAIN db :
        db[j].status \in Terminal => (j \in DOMAIN dbp /\ dbp[j] = db[j])
\* C1: once a task record of any registry is completed or failed, no step
\* changes any of its fields.
C1_TerminalImmutable ==
    [][/\ Frozen(TRANSCRIPTION_TASKS_DB, TRANSCRIPTION_TASKS_DB')
       /\ Frozen(ASR_TASKS_DB, ASR_TASKS_DB')
       /\ Frozen(REPLACE_TASKS_DB, REPLACE_TASKS_DB')
       /\ Frozen(TTS_TASKS_DB, TTS_TASKS_DB')]_vars

\* ---- C2
UniqueIds(db) ==
    \A j, k \in DOMAIN db : db[j].task_id = db[k].task_id => j = k
\* C2: no registry ever holds two records with the same task_id (every id a
\* submit returns is new in its registry).
C2_IdUniqueness ==
    /\ UniqueIds(TRANSCRIPTION_TASKS_DB)
    /\ UniqueIds(ASR_TASKS_DB)
    /\ UniqueIds(REPLACE_TASKS_DB)
    /\ UniqueIds(TTS_TASKS_DB)

\* ---- C3
ProgressMonotone(db, dbp) ==
    \A j \in DOMAIN db :
        db[j].status \notin Terminal => dbp[j].progress >= db[j].progress
ProgressInRange(db) ==
    \A j \in DOMAIN db : db[j].progress >= 0 /\ db[j].progress <= PD
\* C3: while a task is not terminal its progress never decreases, and
\* progress always lies in [0.0, 1.0].
C3_ProgressMonotone ==
    [][/\ ProgressMonotone(TRANSCRIPTION_TASKS_DB, TRANSCRIPTION_TASKS_DB')
       /\ ProgressMonotone(ASR_TASKS_DB, ASR_TASKS_DB')
       /\ ProgressMonotone(REPLACE_TASKS_DB, REPLACE_TASKS_DB')
       /\ ProgressMonotone(TTS_TASKS_DB, TTS_TASKS_DB')
       /\ ProgressInRange(TRANSCRIPTION_TASKS_DB')
       /\ ProgressInRange(ASR_TASKS_DB')
       /\ ProgressInRange(REPLACE_TASKS_DB')
       /\ ProgressInRange(TTS_TASKS_DB')]_vars

\* ---- C4
\* C4: every task id the routed transcribe_media (paddlespeech_asr) has
\* handed out is found by get_task_status.
C4_HandOff ==
    \A j \in DOMAIN ASR_TASKS_DB : GetTaskStatus(ASR_TASKS_DB[j].task_id).found

SeesSubTaskFailed(w) ==
    /\ IsReplaceWorker(w) /\ workers[w].pc = "poll"
    /\ TtsStatus(TTS_TASKS_DB, workers[w].sub) = "failed"
    /\ workers'[w] # workers[w]
\* C6: when the sub-task of segment i is found failed, the replace task is
\* marked failed with an error carrying the index i, and its file_path is
\* not set.
C6_SubTaskFailure ==
    [][\A w \in DOMAIN workers : SeesSubTaskFailed(w) =>
          LET r == First(REPLACE_TASKS_DB', workers[w].task_id) IN
          /\ r.status = "failed"
          /\ r.error.kind = "segment" /\ r.error.index = workers[w].i
          /\ r.file_path = "None"]_vars
\* a replace task over three segments failed on the sub-task of segment 0
C6_Witness ==
    \E w \in DOMAIN workers :
        /\ IsReplaceWorker(w) /\ workers[w].pc = "done" /\ workers[w].n = 3
        /\ LET r == First(REPLACE_TASKS_DB, workers[w].task_id) IN
           r.status = "failed" /\ r.error = SegErr(0, "tts_failed")

\* ---- C7
\* C7: once the sub-task a replace worker waits for has failed, that worker
\* creates no further TTS task.
C7_NoRetry ==
    [][\A w \in DOMAIN workers :
          (/\ IsReplaceWorker(w) /\ workers[w].sub # NoId
           /\ TtsStatus(TTS_TASKS_DB, workers[w].sub) = "failed")
          => SubTasks(TTS_TASKS_DB', w) = SubTasks(TTS_TASKS_DB, w)]_vars
\* a replace worker stopped after the failure of segment 0 although further
\* segments remained, having created exactly one sub-task
C7_Witness ==
    \E w \in DOMAIN workers :
        /\ IsReplaceWorker(w) /\ workers[w].pc = "done"
        /\ workers[w].sub # NoId /\ workers[w].i + 1 < workers[w].n
        /\ TtsStatus(TTS_TASKS_DB, workers[w].sub) = "failed"
        /\ Cardinality(SubTasks(TTS_TASKS_DB, w)) = 1

\* ---- C9
\* the step is a replace_voice call whose transcription task exists and is
\* not completed
RejectedReplaceCall ==
    /\ calls' = calls + 1 /\ resp'.op = "replace_voice"
    /\ HasId(TRANSCRIPTION_TASKS_DB, resp'.arg)
    /\ First(TRANSCRIPTION_TASKS_DB, resp'.arg).status # "completed"
\* C9: replace_voice on a transcription task that is not completed raises,
\* appends no replace record, schedules no worker and leaves every registry
\* unchanged.
C9_PrerequisiteCheck ==
    [][RejectedReplaceCall =>
          /\ resp'.result = "PrerequisiteNotReady"
          /\ REPLACE_TASKS_DB' = REPLACE_TASKS_DB
          /\ workers' = workers
          /\ TRANSCRIPTION_TASKS_DB' = TRANSCRIPTION_TASKS_DB
          /\ ASR_TASKS_DB' = ASR_TASKS_DB
          /\ TTS_TASKS_DB' = TTS_TASKS_DB]_vars
\* replace_voice was called on a transcription task still in progress
C9_Witness ==
    /\ resp.op = "replace_voice" /\ resp.result = "PrerequisiteNotReady"
    /\ HasId(TRANSCRIPTION_TASKS_DB, resp.arg)
    /\ REPLACE_TASKS_DB = <<>>

\* ---- C10
TranscriptOnlyIfCompleted(db) ==
    \A j \in DOMAIN db : db[j].transcription.set => db[j].status = "completed"
\* C10: a transcription task's transcription is set only if its status is
\* completed (a worker that raises leaves the task failed without one).
C10_NoPartialTranscript ==
    /\ TranscriptOnlyIfCompleted(TRANSCRIPTION_TASKS_DB)
    /\ TranscriptOnlyIfCompleted(ASR_TASKS_DB)

\* ---- C15
\* the stage of a record in pending -> processing(0.1) ->
\* processing(0.3..0.9) -> completed(1.0) | failed; -1 when the record is in
\* no state of the machine
Stage(r) ==
    IF r.status = "pending" THEN 0
    ELSE IF r.status = "processing" /\ r.progress = Frac(1, 10) THEN 1
    ELSE IF r.status = "processing" /\ r.progress >= Frac(3, 10)
                                   /\ r.progress <= Frac(9, 10) THEN 2
    ELSE IF r.status = "completed" /\ r.progress = PD THEN 3
    ELSE IF r.status = "failed" THEN 3
    ELSE -1
\* a step of the machine, or several of them made between two suspensions
MachineSteps(a, b) ==
    \/ a.status = b.status /\ a.progress = b.progress
    \/ /\ Stage(a) \in 0..2
       /\ Stage(b) \in 1..3
       /\ Stage(a) <= Stage(b)
       /\ Stage(a) = Stage(b) => a.progress <= b.progress
FollowsMachine(db, dbp) ==
    \A j \in DOMAIN dbp :
        IF j \in DOMAIN db THEN MachineSteps(db[j], dbp[j])
        ELSE dbp[j].status = "pending"
\* C15: every transcription task is created pending and its (status,
\* progress) then moves only along pending -> processing 0.1 -> processing
\* 0.3..0.9 -> completed 1.0, or to failed.
C15_TranscriptionStateMachine ==
    [][/\ FollowsMachine(TRANSCRIPTION_TASKS_DB, TRANSCRIPTION_TASKS_DB')
       /\ FollowsMachine(ASR_TASKS_DB, ASR_TASKS_DB')]_vars

\* ---- C16
\* the audio of the media file of a task of replace_service
TaskAudio(task) == FirstFile(task.file_id).audio
\* C16: when the audio of a task's media file cannot be loaded, no duration
\* is stored for the file, the task gets no transcript, and the task is
\* failed once its worker has ended.
C16_UnreadableMedia ==
    \A w \in DOMAIN workers :
        LET task == First(TRANSCRIPTION_TASKS_DB, workers[w].task_id) IN
        (/\ workers[w].kind = "transcribe"
         /\ HasFile(task.file_id)
         /\ ~TaskAudio(task).readable)
        => /\ FirstFile(task.file_id).duration = -1
           /\ ~task.transcription.set
           /\ workers[w].segments = <<>>
           /\ workers[w].pc = "done" => task.status = "failed"

\* ---- C17
ValidSegment(seg) == 0 <= seg.start /\ seg.start < seg.end
ValidSegments(db) ==
    \A j \in DOMAIN db :
        (db[j].status = "completed" /\ db[j].transcription.set)
        => \A m \in DOMAIN db[j].transcription.segments :
               ValidSegment(db[j].transcription.segments[m])
\* C17: every segment of the transcript of a completed transcription task
\* has 0 <= start < end, whatever the duration of the audio and also when
\* the segments come from the uniform split.
C17_SegmentValidity ==
    /\ ValidSegments(TRANSCRIPTION_TASKS_DB)
    /\ ValidSegments(ASR_TASKS_DB)

\* ---- C18
RECURSIVE MaxEnd(_)
MaxEnd(segs) ==
    IF Len(segs) = 1 THEN segs[1].end
    ELSE Max(segs[1].end, MaxEnd(Tail(segs)))
OrderedTranscript(t) ==
    /\ \A a, b \in DOMAIN t.segments :
          a < b => t.segments[a].start <= t.segments[b].start
    /\ t.nseg >= 1 => t.total_duration = MaxEnd(t.segments)
OrderedTranscripts(db) ==
    \A j \in DOMAIN db :
        (db[j].status = "completed" /\ db[j].transcription.set)
        => OrderedTranscript(db[j].transcription)
\* C18: in the transcript of a completed transcription task the segments are
\* in non-decreasing start order and total_duration is the largest segment
\* end.
C18_OrderAndTotalDuration ==
    /\ OrderedTranscripts(TRANSCRIPTION_TASKS_DB)
    /\ OrderedTranscripts(ASR_TASKS_DB)

\* ---- C19
\* the transcript has one segment per interval, in order, with the
\* interval's bounds, and the ends increase strictly
OnePerInterval(t, vad) ==
    /\ t.set
    /\ t.nseg = Len(vad)
    /\ Len(t.segments) = Len(vad)
    /\ \A m \in DOMAIN vad :
          /\ t.segments[m].start = vad[m].start
          /\ t.segments[m].end = vad[m].end
    /\ \A a, b \in DOMAIN t.segments :
          a < b => t.segments[a].end < t.segments[b].end
\* the task's audio loads and detection finds at least one interval
Detected(task) ==
    /\ HasFile(task.file_id)
    /\ TaskAudio(task).readable
    /\ TaskAudio(task).vad # <<>>
CompletedPerInterval(db) ==
    \A j \in DOMAIN db :
        (Detected(db[j]) /\ db[j].status = "completed")
        => OnePerInterval(db[j].transcription, TaskAudio(db[j]).vad)
UniformCover(segs, d) ==
    /\ Len(segs) >= 3
    /\ segs[1].start = 0
    /\ segs[Len(segs)].end = d
    /\ \A m \in 1..(Len(segs) - 1) : segs[m + 1].start = segs[m].end
    /\ \A a, b \in DOMAIN segs :
          segs[a].end - segs[a].start = segs[b].end - segs[b].start
\* C20: when detection returns no interval for audio of duration D, the
\* worker goes on with n >= 3 intervals of equal length that span 0..D.
C20_VadFallback ==
    \A w \in DOMAIN workers :
        LET task == First(TRANSCRIPTION_TASKS_DB, workers[w].task_id) IN
        (/\ workers[w].kind = "transcribe"
         /\ workers[w].pc \in {"generate", "complete"}
         /\ TaskAudio(task).readable
         /\ TaskAudio(task).vad = <<>>)
        => UniformCover(workers[w].segments, TaskAudio(task).dur)

\* ---- C14
\* a worker of this kind that starts on a terminal record leaves the
\* record as it was
RejectedOnTerminal(kind, db, dbp) ==
    \A w \in DOMAIN workers :
        (/\ workers[w].kind = kind
         /\ workers[w].pc = "start"
         /\ workers'[w].pc # "start"
         /\ HasId(db, workers[w].task_id)
         /\ First(db, workers[w].task_id).status \in Terminal)
        => First(dbp, workers[w].task_id) = First(db, workers[w].task_id)
\* C14: an update attempted on a task that is already completed or failed,
\* as by a worker started a second time for the task id, is rejected
\* (InvalidTransition): the record stays as it was.
C14_RejectedOnTerminal ==
    [][/\ RejectedOnTerminal("tts", TTS_TASKS_DB, TTS_TASKS_DB')
       /\ RejectedOnTerminal("asr", ASR_TASKS_DB, ASR_TASKS_DB')
       /\ RejectedOnTerminal("transcribe", TRANSCRIPTION_TASKS_DB,
                             TRANSCRIPTION_TASKS_DB')
       /\ RejectedOnTerminal("replace", REPLACE_TASKS_DB,
                             REPLACE_TASKS_DB')]_vars

\* ---- C12
\* what a reload after a crash reads (init_replace_service, lines 40-46):
\* the records of transcription_tasks.json
Reloaded == TRANSCRIPTION_TASKS_FILE
\* every task of the registry is in the reloaded records with its latest
\* in-memory state
Recoverable(db) ==
    \A j \in DOMAIN db : \E m \in DOMAIN Reloaded : Reloaded[m] = db[j]
\* C12: whenever the workers are suspended or have returned, the persisted
\* registry holds the latest state of every task, so that a reload after a
\* crash gives every task exactly its last in-memory state.
C12_Durability ==
    /\ Recoverable(TRANSCRIPTION_TASKS_DB)
    /\ Recoverable(ASR_TASKS_DB)

\* ---- C13
\* every task persisted before the step is still persisted after it
KeepsPersisted(file, filep) ==
    \A j \in DOMAIN file : HasId(filep, file[j].task_id)
\* C13: persisting an update to one task never removes the persisted
\* record of a different task from the shared file transcription_tasks.json.
C13_KeyedUpdates ==
    [][KeepsPersisted(TRANSCRIPTION_TASKS_FILE, TRANSCRIPTION_TASKS_FILE')]_vars

\* ---- C11
\* get_task_result (replace_service, course_service), get_tts_task_result:
\* the status of the first record with the id is completed (and the file
\* at file_path exists)
ReturnsResult(db, id) ==
    HasId(db, id) /\ First(db, id).status = "completed"
\* get_transcription, get_subtitles: some record with the id is completed
ReturnsTranscript(db, id) ==
    \E j \in DOMAIN db : db[j].task_id = id /\ db[j].status = "completed"
\* the getter returns a value for the id only if a task with the id is
\* completed
Gated(db, Returns(_, _)) ==
    \A j \in DOMAIN db :
        Returns(db, db[j].task_id)
        => \E m \in DOMAIN db : /\ db[m].task_id = db[j].task_id
                                /\ db[m].status = "completed"
FilePathOnlyIfCompleted(db) ==
    \A j \in DOMAIN db : db[j].file_path # "None" => db[j].status = "completed"
\* C11: the result getters return a value only for a completed task, and a
\* task's file_path is set only if its status is completed.
C11_ResultsGated ==
    /\ Gated(TRANSCRIPTION_TASKS_DB, ReturnsTranscript)
    /\ Gated(ASR_TASKS_DB, ReturnsTranscript)
    /\ Gated(REPLACE_TASKS_DB, ReturnsResult)
    /\ Gated(TTS_TASKS_DB, ReturnsResult)
    /\ Gated(COURSEWARE_TASKS_DB, ReturnsResult)
    /\ FilePathOnlyIfCompleted(REPLACE_TASKS_DB)
    /\ FilePathOnlyIfCompleted(TTS_TASKS_DB)
    /\ FilePathOnlyIfCompleted(COURSEWARE_TASKS_DB)

\* ---------------------------------------------------------------- C21
\* the intervals found so far do not overlap and start in strictly
\* increasing order
Disjoint(segs) ==
    \A j, k \in DOMAIN segs :
        j < k => /\ segs[j].end <= segs[k].start
                 /\ segs[j].start < segs[k].start
\* every interval is at least min_duration long
NotShort(segs, sr) ==
    \A j \in DOMAIN segs : LongEnough(segs[j].end - segs[j].start, sr)
\* the interval is longer than max_duration
TooLong(seg, sr) ==
    (seg.end - seg.start) * HopLength(sr) * 1000 > MaxDurationMs * sr

ResultOf(id) ==
    stitch.tts_results[CHOOSE j \in DOMAIN stitch.tts_results :
                          stitch.tts_results[j].segment_id = id]
\* segment a comes before segment b in start order, transcript order
\* deciding between equal starts
Before(a, b) ==
    \/ ResultOf(a).start < ResultOf(b).start
    \/ ResultOf(a).start = ResultOf(b).start /\ a < b
\* the segments whose audio file exists
Loadable ==
    {stitch.tts_results[j].segment_id : j \in
        {m \in DOMAIN stitch.tts_results : stitch.tts_results[m].audio_file.exists}}

FirstLoaded ==
    CHOOSE a \in Loadable : \A b \in Loadable \ {a} : Before(a, b)
\* the length of n samples at rate from once they are at rate to
LengthAt(n, from, to) ==
    CHOOSE m \in 0..(n * to) : (m - 1) * from < n * to /\ n * to <= m * from

ResolvedSegments(w) ==
    {seg \in 0..(workers[w].n - 1) :
        \E j \in DOMAIN TTS_TASKS_DB :
            /\ TTS_TASKS_DB[j].text = SegmentText(w, seg)
            /\ TTS_TASKS_DB[j].status \in Terminal}
\* the replace task of background task w is synthesizing
Synthesizing(w) ==
    /\ IsReplaceWorker(w)
    /\ workers[w].pc = "poll"
    /\ HasId(REPLACE_TASKS_DB, workers[w].task_id)
    /\ First(REPLACE_TASKS_DB, workers[w].task_id).status = "processing"

\* C24: while a replace task over n segments is synthesizing, its stored
\* progress is 0.1 + 0.7 * c / n, c being the number of its segments whose
\* synthesis sub-task has resolved (0.1 while none has), and it is at most
\* 0.8.
C24_ProgressLinear ==
    \A w \in DOMAIN workers :
        Synthesizing(w) =>
            LET progress == First(REPLACE_TASKS_DB, workers[w].task_id).progress
                c == Cardinality(ResolvedSegments(w))
            IN /\ progress = Frac(1, 10) + (Frac(7, 10) * c) \div workers[w].n
               /\ progress <= Frac(8, 10)

\* ---------------------------------------------------------------- C26
\* C26: the params adapt_tts_params returns have a pitch in [-1.0, 1.0] and
\* an energy in [0.5, 2.0], for every embedding and for base params that
\* lack pitch or energy.
C26_AdaptBounds ==
    adapt.pc = "returned" =>
        LET params == adapt.params.content IN
        /\ "pitch" \in DOMAIN params
        /\ "energy" \in DOMAIN params
        /\ -1000 <= params["pitch"] /\ params["pitch"] <= 1000
        /\ 500 <= params["energy"] /\ params["energy"] <= 2000

C25_AdaptOnce ==
    \A j \in DOMAIN TTS_TASKS_DB :
        TTS_TASKS_DB[j].params \in
            {SubmittedParams,
             AdaptTtsParams(VoiceEmbedding(TTS_TASKS_DB[j].voice_id),
                            SubmittedParams)}

\* ---------------------------------------------------------------- C28
\* the stored sample with this id has a non-zero mfcc_fingerprint
HasFingerprint(id) ==
    \E j \in DOMAIN similar.files :
        /\ similar.files[j].sample_id = id
        /\ "mfcc_fingerprint" \in DOMAIN similar.files[j].features
        /\ Dot(similar.files[j].features["mfcc_fingerprint"],
               similar.files[j].features["mfcc_fingerprint"]) > 0

\* C28: compare_voice_samples(id, id) on a stored sample with a non-zero
\* fingerprint returns exactly 1.0, and find_similar_voices reports exactly
\* 1.0 for every stored embedding equal to the (non-zero) query.
C28_SelfSimilarity ==
    /\ similar.last.op = "compare_voice_samples"
       /\ similar.last.sample_id1 = similar.last.sample_id2
       /\ HasFingerprint(similar.last.sample_id1)
          => /\ similar.last.out \notin {"ValueError", "0.0"}
             /\ IsOne(similar.last.out)
    /\ similar.last.op = "find_similar_voices" =>
          \A j \in DOMAIN similar.last.out :
             LET entry == similar.last.out[j]
                 file == similar.files[entry.sample_id]
             IN LoadVoiceEmbedding(file.features) = similar.last.embedding
                   => IsOne(entry.similarity)

\* ---------------------------------------------------------------- C29
\* C29: find_similar_voices considers every stored profile: it returns
\* min(top_n, number of profiles) entries, by similarity descending, equal
\* similarities in the order the profiles were inserted.
C29_FindSimilarRanking ==
    similar.last.op = "find_similar_voices" =>
        LET out == similar.last.out
            count == Len(similar.files)
        IN /\ Len(out) = IF similar.last.top_n <= count
                         THEN similar.last.top_n ELSE count
           /\ \A j, k \in DOMAIN out :
                 j < k => /\ ~Higher(out[k].similarity, out[j].similarity)
                          /\ ~Higher(out[j].similarity, out[k].similarity)
                                => out[j].sample_id < out[k].sample_id

\* ---------------------------------------------------------------- C30
\* C30: every stored features file records which representation produced
\* its embedding.
C30_RepresentationRecorded ==
    \A j \in DOMAIN similar.files :
        "embedding_type" \in DOMAIN similar.files[j].features

\* ---- C31
\* the features file of sample id is still there with the same content
EmbeddingKept(id) ==
    /\ id \in DOMAIN voice'.embeddings
    /\ voice'.embeddings[id] = voice.embeddings[id]
\* the step deletes the record of sample id
SampleDeleted(id) ==
    HasSample(voice.samples, id) /\ ~HasSample(voice'.samples, id)
\* C31: once the features file of a voice sample id has been written, no step
\* changes its content; it goes away only in a step that deletes the sample.
C31_EmbeddingWriteOnce ==
    [][\A id \in DOMAIN voice.embeddings :
         \/ EmbeddingKept(id)
         \/ id \notin DOMAIN voice'.embeddings /\ SampleDeleted(id)]_vars

\* ---- C39
\* what a record in status ready or failed carries
SampleFieldsSet(rec) ==
    /\ rec.status = "ready" =>
         /\ rec.embedding_path # None /\ rec.model_path # None
         /\ rec.quality_score # None
         /\ rec.audio.dur >= MinSampleSec * TU
         /\ rec.audio.dur <= MaxSampleSec * TU
    /\ rec.status = "failed" => rec.error # None
\* record j of this state and record k of the next are the same
\* VoiceSampleDB object
SameSample(j, k) ==
    /\ voice.samples[j].id = voice'.samples[k].id
    /\ voice.samples[j].obj = voice'.samples[k].obj
Accepted(j) ==
    /\ j \in DOMAIN REPLACE_TASKS_DB
    /\ Cardinality({k \in DOMAIN REPLACE_TASKS_DB :
                      REPLACE_TASKS_DB[k].task_id = REPLACE_TASKS_DB[j].task_id})
       = Cardinality({w \in DOMAIN workers :
                        /\ workers[w].kind = "replace"
                        /\ workers[w].task_id = REPLACE_TASKS_DB[j].task_id})
\* no background task has a step left to take
Quiescent == \A w \in DOMAIN workers : workers[w].pc = "done"
\* C32: every replace task that was handed to a worker ends completed or
\* failed: once no background task has a step left, none of them is still
\* pending or processing.
C32_ReplaceTerminates ==
    Quiescent =>
        \A j \in DOMAIN REPLACE_TASKS_DB :
            Accepted(j) => REPLACE_TASKS_DB[j].status \in Terminal

\* ---- C38
\* TTS record j was submitted by a client, and every client's record with
\* its id was handed to a worker
AcceptedTts(j) ==
    /\ TTS_TASKS_DB[j].text = SegmentText(0, 0)
    /\ Cardinality({k \in DOMAIN TTS_TASKS_DB :
                      /\ TTS_TASKS_DB[k].text = SegmentText(0, 0)
                      /\ TTS_TASKS_DB[k].task_id = TTS_TASKS_DB[j].task_id})
       = Cardinality({w \in DOMAIN workers :
                        /\ workers[w].kind = "tts"
                        /\ workers[w].task_id = TTS_TASKS_DB[j].task_id})
\* C38: a TTS task whose voice sample was deleted after the task was
\* accepted ends failed with an error, and so does a replace task that
\* waited for a sub-task of that voice: once no background task has a step
\* left, none of these tasks is pending or processing.
C38_DeletedVoiceFails ==
    Quiescent =>
        /\ \A j \in DOMAIN TTS_TASKS_DB :
             AcceptedTts(j) /\ TTS_TASKS_DB[j].voice_id \notin VOICE_SAMPLES_DB
             => /\ TTS_TASKS_DB[j].status = "failed"
                /\ TTS_TASKS_DB[j].error # NoError
        /\ \A w \in DOMAIN workers :
             /\ IsReplaceWorker(w) /\ workers[w].sub # NoId
             /\ First(TTS_TASKS_DB, workers[w].sub).voice_id \notin VOICE_SAMPLES_DB
             => First(REPLACE_TASKS_DB, workers[w].task_id).status = "failed"

\* ---- C33
IsTtsWorker(w) == w \in DOMAIN workers /\ workers[w].kind = "tts"
Polled(w) == First(TTS_TASKS_DB, workers[w].sub)
\* no client has submitted a TTS task of its own: every TTS record is the
\* sub-task of an orchestration
OnlySubTasks == \A j \in DOMAIN TTS_TASKS_DB : TTS_TASKS_DB[j].text.w # 0
\* C34: with replace tasks alone at work, the sub-task a replace worker
\* waits for, whose output becomes the audio of its segment i, is the one
\* this worker created from the text of segment i, and every sub-task a
\* worker has created has been processed.
C34_Isolation ==
    \A w \in DOMAIN workers :
        /\ IsReplaceWorker(w) /\ workers[w].pc = "poll"
        /\ OnlySubTasks
        => /\ Polled(w).text = SegmentText(w, workers[w].i)
           /\ \A j \in SubTasks(TTS_TASKS_DB, w) :
                TTS_TASKS_DB[j].status # "pending"

\* ---- C35
IsCourseWorker(w) == w \in DOMAIN workers /\ workers[w].kind = "course"
\* courseware worker w has an audio for the chunk of slide i only if a
\* sub-task it created from that text is completed (lines 466-480)
HasChunkAudio(w, i) ==
    \E j \in SubTasks(TTS_TASKS_DB, w) :
        /\ TTS_TASKS_DB[j].text = SegmentText(w, i)
        /\ TTS_TASKS_DB[j].status = "completed"
\* C35: a courseware task is completed only if every chunk of every slide
\* has its audio; a failed synthesis sub-task keeps the task from ending
\* completed.
C35_NoPartialCourseware ==
    \A w \in DOMAIN workers :
        LET task == First(COURSEWARE_TASKS_DB, workers[w].task_id) IN
        (/\ IsCourseWorker(w) /\ workers[w].pc = "done"
         /\ task.status = "completed")
        => \A i \in 0..(task.total_slides - 1) : HasChunkAudio(w, i)

Registries ==
    <<MEDIA_FILES_DB, VOICE_SAMPLES_DB, TRANSCRIPTION_TASKS_DB, ASR_TASKS_DB,
      REPLACE_TASKS_DB, TTS_TASKS_DB, TRANSCRIPTION_TASKS_FILE,
      COURSEWARE_DB, COURSEWARE_TASKS_DB>>
KnownMedia(file_id) ==
    \E m \in DOMAIN MEDIA_FILES_DB : MEDIA_FILES_DB[m].file_id = file_id
KnownCourseware(file_id) ==
    \E m \in DOMAIN COURSEWARE_DB : COURSEWARE_DB[m].file_id = file_id
KnownTask(db, id) == \E j \in DOMAIN db : db[j].task_id = id
\* the record a step appends to db, if it appends one
Appends(db, dbNext) == Len(dbNext) = Len(db) + 1
\* a call that meets an unknown reference answers with the error and changes
\* no registry and schedules no worker
UnknownRaises ==
    calls' = calls + 1 /\ resp'.result = "NotFound"
    => UNCHANGED <<Registries, workers>>
\* a record that a call appends refers to a file, voice, transcription or
\* courseware known when the call was made
AppendedRefersToKnown ==
    /\ Appends(TRANSCRIPTION_TASKS_DB, TRANSCRIPTION_TASKS_DB')
       => KnownMedia(TRANSCRIPTION_TASKS_DB'[Len(TRANSCRIPTION_TASKS_DB')].file_id)
    /\ Appends(ASR_TASKS_DB, ASR_TASKS_DB')
       => KnownMedia(ASR_TASKS_DB'[Len(ASR_TASKS_DB')].file_id)
    /\ Appends(TTS_TASKS_DB, TTS_TASKS_DB')
       => TTS_TASKS_DB'[Len(TTS_TASKS_DB')].voice_id \in VOICE_SAMPLES_DB
    /\ Appends(REPLACE_TASKS_DB, REPLACE_TASKS_DB')
       => KnownTask(TRANSCRIPTION_TASKS_DB,
                    REPLACE_TASKS_DB'[Len(REPLACE_TASKS_DB')].transcription_task_id)
    /\ Appends(COURSEWARE_TASKS_DB, COURSEWARE_TASKS_DB')
       => KnownCourseware(COURSEWARE_TASKS_DB'[Len(COURSEWARE_TASKS_DB')].file_id)
\* worker w runs in this step, started for a task id without a record
RunsUnknown(w) ==
    /\ workers[w].pc = "start"
    /\ workers'[w].pc # "start"
    /\ ~KnownTask(Registry(workers[w].kind), workers[w].task_id)
AllTaskIdInputs == UNION {TaskIdInputs(kind) : kind \in WorkerKinds}
\* the status queries return no record for an id of no record
UnknownStatusIsNone ==
    \A id \in AllTaskIdInputs :
       /\ ~KnownTask(TRANSCRIPTION_TASKS_DB, id) /\ ~KnownTask(REPLACE_TASKS_DB, id)
          => ~GetTaskStatus(id).found
       /\ ~KnownTask(TTS_TASKS_DB, id)
          => /\ TtsStatus(TTS_TASKS_DB, id) = "None"
             /\ \A exists \in BOOLEAN :
                  ~GetTtsTaskResult(TTS_TASKS_DB, id, exists).found
\* C37: a submit that names an unknown file, voice, transcription task or
\* courseware raises the error and leaves every registry as it was, so every
\* record appended refers to something known; the status queries find no
\* record for an unknown id; and a worker run for a task id without a record
\* changes no registry.
C37_UnknownReferences ==
    /\ [] UnknownStatusIsNone
    /\ [][ /\ UnknownRaises
           /\ AppendedRefersToKnown
           /\ \A w \in DOMAIN workers :
                RunsUnknown(w) => UNCHANGED Registries ]_vars
\* a worker has run for a task id without a record and a later submit was
\* refused for an unknown file while a file is registered
C37_Witness ==
    /\ resp.result = "NotFound"
    /\ resp.op = "transcribe_media"
    /\ MEDIA_FILES_DB # <<>>
    /\ \E w \in DOMAIN workers :
         /\ workers[w].pc = "done"
         /\ ~KnownTask(Registry(workers[w].kind), workers[w].task_id)
====
